---- MODULE Spec2Model ----
(***************************************************************************)
(* Model of the quota extension of dockerized-pi (src/unnamed/part_002):   *)
(* the "quota" command handler (credential load, fan-out of the provider   *)
(* adapters, fan-in, row normalisation, widget and auto-close timer) and   *)
(* the table layout engine renderQuotaTable; then, each on its own, the    *)
(* callable operations, truncateCell, one turn of row normalisation, the   *)
(* render callback called repeatedly, and the command invoked repeatedly.  *)
(*                                                                         *)
(* Conventions.                                                            *)
(*  - Text is TLA+ strings; visibleWidth is Len: every character of the    *)
(*    model occupies one column.  The three non-ASCII glyphs of the source *)
(*    are written in ASCII: the one-column ellipsis U+2026 is "~", the bar *)
(*    glyphs U+2588 / U+2591 are "#" and ".".                              *)
(*  - theme.fg / theme.bold only add styling, which has no visible width;  *)
(*    they are left out.                                                   *)
(*  - An optional number is a sequence: <<>> is undefined, <<n>> is n.     *)
(*    An optional or falsy string is "".                                   *)
(*  - Numbers with a fractional part are carried in fixed point: percents  *)
(*    in tenths, fractions in thousandths.                                 *)
(*  - A parameter maxWidth of 0 stands for "no width given" (JavaScript    *)
(*    treats 0 and undefined alike in the tests `maxWidth ? ... : ...`).   *)
(***************************************************************************)
EXTENDS Integers, Sequences, FiniteSets, TLC

VARIABLES
    \* ---- the quota command --------------------------------------------------
    authFile,   \* the credential store: missing, not JSON, or its provider entries
    pc,         \* position of the handler: "idle", "awaiting", "done"
    tasks,      \* the promises of providers.map, one task per provider entry
    notes,      \* the notifications shown by ctx.ui.notify, in order
    widget,     \* whether the "quota" widget is set
    timer,      \* the auto-close timer: "none", "armed", "fired"
    rows,       \* the rows of the widget (the closure variable of its factory)
    firstSettled, \* history: the task whose promise a response settled first (0: none)
    \* ---- the callable operations (registerTool) ------------------------------
    call,       \* the running or finished execute() of a tool
    \* ---- truncateCell taken on its own -----------------------------------
    cell,       \* a text, a width, and the results of truncating it again and again
    \* ---- one turn of the factory's loop over providerResults ---------------
    norm,       \* one provider result and, once normalised, the rows it contributes
    \* ---- the render callback called again and again ----------------------
    renders,    \* history: the width and the returned lines of every render call
    \* ---- the quota command invoked again and again -------------------------
    invs,       \* per invocation: the position of its handler and its close timer
    slot,       \* the "quota" widget slot of the shell and the pending timers, in order
    \* ---- layout engine (one call of the render callback) -----------------
    lpc,        \* position of the render call: "idle", "while", "for", "emit", "done"
    width,      \* the parameter `width` of the render callback
    maxWidth,   \* the parameter `maxWidth` of renderQuotaTable
    widths,     \* the local array `widths` of renderQuotaTable
    k,          \* position of the for loop in shrinkOrder (1-based)
    reduced,    \* the local flag `reduced`
    passDec,    \* history: the columns decremented so far in the current pass
    lines       \* the lines the last render call returned

hvars == <<authFile, pc, tasks, notes, widget, timer, firstSettled>>
tvars == <<call, cell, norm, renders, invs, slot>>
lvars == <<rows, lpc, width, maxWidth, widths, k, reduced, passDec, lines>>
vars == <<hvars, lvars, tvars>>

-----------------------------------------------------------------------------
(* Bounds of the model.                                                    *)

MaxRows == 3

\* The widths the terminal hands to render: the boundary values of the title
\* (15), of the footer (20), of the floor total (80), of the widest natural
\* table (116), and values between them.
Widths == {1, 2, 3, 10, 14, 15, 16, 20, 40, 79, 80, 81, 90, 100, 115, 116, 117, 120}

-----------------------------------------------------------------------------
(* Text helpers.                                                           *)

Min(a, b) == IF a < b THEN a ELSE b
Max(a, b) == IF a > b THEN a ELSE b

RECURSIVE Repeat(_, _)
Repeat(c, n) == IF n <= 0 THEN "" ELSE c \o Repeat(c, n - 1)

CharAt(s, i) == SubSeq(s, i, i)

Slice(s, n) == SubSeq(s, 1, Min(n, Len(s)))

visibleWidth(s) == Len(s)

\* @mariozechner/pi-tui truncateToWidth(text, maxWidth) with its default
\* ellipsis "...": text that fits is returned as it is; otherwise the text is
\* cut to maxWidth - 3 columns and the ellipsis appended; when not even the
\* ellipsis fits, the first maxWidth characters of the ellipsis.
truncateToWidth(text, w) ==
    IF visibleWidth(text) <= w THEN text
    ELSE IF w - 3 <= 0 THEN Slice("...", Max(w, 0))
    ELSE Slice(text, w - 3) \o "..."

LineBreakChars == {"\r", "\n", "\t"}
\* The model's other control character: "\f" stands for any of U+0000-U+001F, U+007F.
ControlChars == LineBreakChars \cup {"\f"}

\* value.replace(/[\r\n\t]+/g, " ").replace(/[\u0000-\u001f\u007f]/g, " ")
RECURSIVE NormalizeFrom(_, _, _)
NormalizeFrom(s, i, inRun) ==
    IF i > Len(s) THEN ""
    ELSE LET c == CharAt(s, i) IN
         IF c \in LineBreakChars
         THEN (IF inRun THEN "" ELSE " ") \o NormalizeFrom(s, i + 1, TRUE)
         ELSE (IF c \in ControlChars THEN " " ELSE c) \o NormalizeFrom(s, i + 1, FALSE)

\* A plausible slip: the ellipsis appended to w characters instead of w - 1.
truncateCellOffByOne(value, w) ==
    LET normalized == NormalizeFrom(value, 1, FALSE) IN
    IF w <= 0 THEN ""
    ELSE IF Len(normalized) <= w THEN normalized
    ELSE Slice(normalized, w) \o "~"

truncateCell(value, w) ==
    LET normalized == NormalizeFrom(value, 1, FALSE) IN
    IF w <= 0 THEN ""
    ELSE IF Len(normalized) <= w THEN normalized
    ELSE IF w <= 1 THEN "~"
    ELSE Slice(normalized, w - 1) \o "~"

\* Math.round(clamped * width) for a fraction in thousandths.
renderProgressBar(fraction, barWidth) ==
    LET clamped == Max(0, Min(1000, fraction))
        filled  == (clamped * barWidth + 500) \div 1000
    IN Repeat("#", filled) \o Repeat(".", barWidth - filled)

barValue(row) ==
    IF Len(row.progressRemaining) # 1 THEN "-"
    ELSE renderProgressBar(row.progressRemaining[1], 8)

padVisible(value, w) == value \o Repeat(" ", Max(0, w - visibleWidth(value)))

RECURSIVE SeqsUpTo(_, _)
SeqsUpTo(S, n) ==
    IF n = 0 THEN {<<>>}
    ELSE LET shorter == SeqsUpTo(S, n - 1) IN
         shorter \cup {Append(s, x) : s \in {t \in shorter : Len(t) = n - 1}, x \in S}

RECURSIVE Join(_, _)
Join(parts, sep) ==
    IF Len(parts) = 0 THEN ""
    ELSE IF Len(parts) = 1 THEN parts[1]
    ELSE parts[1] \o sep \o Join(Tail(parts), sep)

-----------------------------------------------------------------------------
(* renderQuotaTable.                                                       *)

headers == <<"Provider", "Account", "Plan", "Metric", "Value", "Bar", "Reset/Note">>
Cols == 1..7
maxColumnWidths == <<14, 18, 12, 14, 14, 8, 14>>
\* A plausible slip: no floors to speak of.
minColumnWidthsOne == <<1, 1, 1, 1, 1, 1, 1>>
minColumnWidths == <<8, 10, 8, 8, 8, 8, 8>>

\* The order Value, Reset/Note, Metric, Provider, Plan, Account.
shrinkOrderAccountLast == <<5, 7, 4, 1, 3, 2>>

\* shrinkOrder = [1, 4, 3, 6, 0, 2], written with the model's 1-based columns.
shrinkOrder == <<2, 5, 4, 7, 1, 3>>

Cells(row) ==
    <<row.provider, row.account, row.plan, row.metric, row.value, barValue(row), row.reset>>

RECURSIVE MaxCell(_, _)
MaxCell(rs, c) ==
    IF Len(rs) = 0 THEN 0
    ELSE Max(visibleWidth(Cells(rs[1])[c]), MaxCell(Tail(rs), c))

NaturalWidths(rs) ==
    [c \in Cols |->
        Min(Max(visibleWidth(headers[c]), MaxCell(rs, c)), maxColumnWidths[c])]

RECURSIVE SumTo(_, _)
SumTo(ws, n) == IF n = 0 THEN 0 ELSE ws[n] + SumTo(ws, n - 1)

totalWidth(ws) == SumTo(ws, Len(ws)) + Len(ws) * 3 + 1

\* The state of the shrink loop: [pc, widths, k, reduced, dec].
LoopEntry(rs, w) ==
    LET nat == NaturalWidths(rs) IN
    [pc      |-> IF w # 0 /\ totalWidth(nat) > w THEN "while" ELSE "emit",
     widths  |-> nat,
     k       |-> 1,
     reduced |-> FALSE,
     dec     |-> {}]

\* The test of `while (totalWidth() > maxWidth)` and the start of a pass.
whileCheck(s, w) ==
    IF totalWidth(s.widths) > w
    THEN [s EXCEPT !.pc = "for", !.k = 1, !.reduced = FALSE, !.dec = {}]
    ELSE [s EXCEPT !.pc = "emit"]

\* After the for loop: `if (!reduced) break;`, else the while test again.
AfterFor(s) == [s EXCEPT !.pc = IF s.reduced THEN "while" ELSE "emit"]

\* A plausible slip: the `break` of the for loop left out, so that a pass
\* always runs over the whole of shrinkOrder.
forStepNoBreak(s, w) ==
    LET idx  == shrinkOrder[s.k]
        last == s.k = Len(shrinkOrder)
    IN IF s.widths[idx] > minColumnWidths[idx]
       THEN LET t == [s EXCEPT !.widths[idx] = @ - 1, !.reduced = TRUE,
                               !.dec = @ \cup {idx}]
            IN IF last THEN AfterFor(t) ELSE [t EXCEPT !.k = @ + 1]
       ELSE IF last THEN AfterFor(s) ELSE [s EXCEPT !.k = @ + 1]

\* One iteration of `for (const idx of shrinkOrder)`.
forStep(s, w) ==
    LET idx  == shrinkOrder[s.k]
        last == s.k = Len(shrinkOrder)
    IN IF s.widths[idx] > minColumnWidths[idx]
       THEN LET t == [s EXCEPT !.widths[idx] = @ - 1, !.reduced = TRUE,
                               !.dec = @ \cup {idx}]
            IN IF totalWidth(t.widths) <= w \/ last
               THEN AfterFor(t)
               ELSE [t EXCEPT !.k = @ + 1]
       ELSE IF last THEN AfterFor(s) ELSE [s EXCEPT !.k = @ + 1]

separator(ws) ==
    "+" \o Join([c \in Cols |-> Repeat("-", ws[c] + 2)], "+") \o "+"

renderRow(cols, ws, w) ==
    LET clamped == [c \in Cols |->
                      padVisible(truncateToWidth(truncateCell(cols[c], ws[c]), ws[c]), ws[c])]
        row == "| " \o Join(clamped, " | ") \o " |"
    IN IF w # 0 THEN truncateToWidth(row, w) ELSE row

borderLine(ws, w) ==
    [kind |-> "border",
     text |-> IF w # 0 THEN truncateToWidth(separator(ws), w) ELSE separator(ws)]

\* A plausible slip: a border before every row but the first.
ProviderChangedAlways(lastProvider, row) == Len(lastProvider) = 1

\* `lastProvider !== undefined && row.provider !== lastProvider`, lastProvider
\* being <<>> while undefined.
ProviderChanged(lastProvider, row) ==
    Len(lastProvider) = 1 /\ row.provider # lastProvider[1]

\* The loop over the rows: a border whenever the provider changes, then the row.
RECURSIVE DataLines(_, _, _, _, _)
DataLines(rs, i, lastProvider, ws, w) ==
    IF i > Len(rs) THEN <<>>
    ELSE LET row == rs[i] IN
         (IF ProviderChanged(lastProvider, row)
          THEN <<borderLine(ws, w)>> ELSE <<>>)
         \o <<[kind |-> "row", text |-> renderRow(Cells(row), ws, w)]>>
         \o DataLines(rs, i + 1, <<row.provider>>, ws, w)

\* The lines pushed by renderQuotaTable, given the final column widths.
TableLines(rs, ws, w) ==
    <<[kind |-> "title", text |-> "Provider Quotas"],
      borderLine(ws, w),
      [kind |-> "header", text |-> renderRow(headers, ws, w)],
      borderLine(ws, w)>>
    \o DataLines(rs, 1, <<>>, ws, w)
    \o <<borderLine(ws, w)>>

\* What the render callback adds to the table.
footerLine(w) ==
    [kind |-> "footer", text |-> truncateToWidth("(Auto-closes in 30s)", w)]

-----------------------------------------------------------------------------
(* Number and date formatting.                                             *)

Digit(d) == CharAt("0123456789", d + 1)

RECURSIVE IntStr(_)
IntStr(n) ==
    IF n < 0 THEN "-" \o IntStr(0 - n)
    ELSE IF n < 10 THEN Digit(n)
    ELSE IntStr(n \div 10) \o Digit(n % 10)

\* x.toFixed(1) for x given in tenths.
ToFixed1(tenths) ==
    IF tenths < 0 THEN "-" \o IntStr((0 - tenths) \div 10) \o "." \o Digit((0 - tenths) % 10)
    ELSE IntStr(tenths \div 10) \o "." \o Digit(tenths % 10)

\* x.toFixed(2) for x >= 0 given in hundredths.
ToFixed2(hundredths) ==
    IntStr(hundredths \div 100) \o "." \o Digit((hundredths \div 10) % 10)
        \o Digit(hundredths % 10)

\* The timestamps of the model and what toLocaleDateString / toLocaleTimeString
\* print for them; any other text is not a date (getTime() is NaN).
formatDateUtc(value) ==
    IF value = "2026-02-01T00:00:00Z" THEN "01 Feb 00:00" ELSE "unknown"

\* `if (!seconds) return "unknown"`: undefined and 0 alike.
formatEpochUtc(seconds) ==
    IF Len(seconds) = 0 \/ seconds = <<0>> THEN "unknown"
    ELSE IF seconds = <<1700000000>> THEN "14 Nov 22:13"
    ELSE "01 Jan 00:00"

-----------------------------------------------------------------------------
(* The credential store (auth.json) and the provider responses.            *)

MaxProviders == 2

ProviderIds ==
    {"github-copilot", "google-antigravity", "google-gemini-cli", "openai-codex", "anthropic"}

GoogleIds == {"google-antigravity", "google-gemini-cli"}

Config(acc, ref, proj, mail, acct, pl) ==
    [isObject |-> TRUE, access |-> acc, refresh |-> ref, projectId |-> proj,
     email |-> mail, accountId |-> acct, plan |-> pl, subscriptionPlan |-> "",
     login |-> ""]

\* `config: {}` of the handler, for a provider entry that is no object.
EmptyConfig == Config("", "", "", "", "", "")

\* A provider entry of auth.json that is not an object (a string, an array).
NonObjectEntry == [EmptyConfig EXCEPT !.isObject = FALSE]

ConfigPool ==
    { NonObjectEntry,
      Config("", "", "", "", "", "pro"),
      Config("access-token", "refresh-token", "", "dev@example.com", "acct-1", "") }

\* An access token without claims and no account id: to every adapter but the
\* Header-Probe one it is a credential like the others.
NoAccountConfig == Config("a.b", "", "", "", "", "")

\* The credential entries the callable operations are run on: the above, and
\* entries that differ in the shape of the access token and in the project id.
ToolConfigPool ==
    ConfigPool \cup
    { \* a token of two segments, with and without an account id next to it
      Config("a.b", "", "", "", "acct-2", ""),
      NoAccountConfig,
      \* a token of three segments whose middle segment is no JSON
      Config("h.bad.s", "", "", "", "", ""),
      Config("h.bad.s", "", "", "", "acct-2", ""),
      \* a token with claims, and a project id
      Config("h.eyJjbGFpbXMifQ.s", "", "proj-cfg", "", "", "") }

\* The credential entries a provider id is given in the credential store.
ConfigsFor(provider) ==
    IF provider = "openai-codex" THEN ConfigPool \cup {NoAccountConfig} ELSE ConfigPool

RECURSIVE Distinct(_)
Distinct(seq) ==
    \/ Len(seq) <= 1
    \/ /\ \A i \in 2..Len(seq) : seq[i] # seq[1]
       /\ Distinct(Tail(seq))

\* The provider ids of a parsed auth.json, in file order (object keys are distinct).
ProviderLists == {ps \in SeqsUpTo(ProviderIds, MaxProviders) : Distinct(ps)}

AuthFiles ==
    { [state |-> "missing", entries |-> <<>>],
      [state |-> "invalid", entries |-> <<>>] }
    \cup
    UNION { { [state |-> "ok",
               entries |-> [i \in 1..Len(ps) |-> [provider |-> ps[i], raw |-> cs[i]]]]
              : cs \in {f \in [1..Len(ps) -> ConfigPool \cup {NoAccountConfig}] :
                           \A i \in 1..Len(ps) : f[i] \in ConfigsFor(ps[i])} }
            : ps \in ProviderLists }

\* A response: the fetch rejects ("throw"), or resolves with a status and a body.
Thrown == [kind |-> "throw", status |-> 0, body |-> [none |-> TRUE]]
Http(status, body) == [kind |-> "http", status |-> status, body |-> body]
ok(resp) == resp.status >= 200 /\ resp.status <= 299

Snapshot(ent, rem, pct, unl) ==
    [entitlement |-> ent, remaining |-> rem, percent_remaining |-> pct, unlimited |-> unl]

CopilotBodies ==
    { \* no quota_snapshots key at all
      [login |-> "octocat", copilot_plan |-> "individual", sku |-> "",
       access_type_sku |-> "", quota_reset_date_utc |-> "",
       has_snapshots |-> FALSE, quota_snapshots |-> <<>>],
      \* quota_snapshots: {}
      [login |-> "octocat", copilot_plan |-> "individual", sku |-> "",
       access_type_sku |-> "", quota_reset_date_utc |-> "",
       has_snapshots |-> TRUE, quota_snapshots |-> <<>>],
      [login |-> "", copilot_plan |-> "", sku |-> "free_limited_copilot",
       access_type_sku |-> "free_limited_copilot",
       quota_reset_date_utc |-> "2026-02-01T00:00:00Z",
       has_snapshots |-> TRUE,
       quota_snapshots |->
         << [id |-> "chat", snapshot |-> Snapshot(<<>>, <<>>, <<>>, TRUE)],
            [id |-> "premium_interactions",
             snapshot |-> Snapshot(<<10>>, <<3>>, <<300>>, FALSE)] >>] }

LoadBodies ==
    { [availablePromptCredits |-> <<100>>, cloudaicompanionProject |-> "project-1",
       plan |-> "", subscriptionPlan |-> "",
       tierName |-> "Gemini Code Assist", tierId |-> "standard-tier"],
      [availablePromptCredits |-> <<>>, cloudaicompanionProject |-> "project-2",
       plan |-> "", subscriptionPlan |-> "", tierName |-> "", tierId |-> "free-tier"],
      [availablePromptCredits |-> <<>>, cloudaicompanionProject |-> "",
       plan |-> "", subscriptionPlan |-> "", tierName |-> "", tierId |-> ""] }

Model(id, hasQuota, frac, resetTime) ==
    [id |-> id, hasQuotaInfo |-> hasQuota, remainingFraction |-> frac, resetTime |-> resetTime]

ModelsBodies ==
    { [has_models |-> FALSE, models |-> <<>>, recommended |-> {}],
      [has_models |-> TRUE,
       models |-> << Model("gemini-2.5-pro", TRUE, <<450>>, "2026-02-01T00:00:00Z"),
                     Model("gemini-2.5-flash", TRUE, <<1000>>, ""),
                     Model("gemini-2.0-exp", TRUE, <<>>, "") >>,
       recommended |-> {"gemini-2.0-exp"}] }

Window(used, resetAt) == [usedPercent |-> used, resetAt |-> resetAt]

\* What parseCodexWindow and the parseHeader* helpers read from the headers.
CodexHeaders ==
    { \* used-percent headers of 42.5 and of 120
      [planType |-> "plus", primary |-> Window(<<425>>, <<1700000000>>),
       secondary |-> Window(<<1200>>, <<0>>), primaryOverSecondaryPercent |-> <<>>,
       creditsUnlimited |-> FALSE, creditsHasCredits |-> TRUE, creditsBalance |-> <<1250>>],
      \* no used-percent header, and one of -5
      [planType |-> "", primary |-> Window(<<>>, <<>>),
       secondary |-> Window(<<-50>>, <<1700003600>>), primaryOverSecondaryPercent |-> <<>>,
       creditsUnlimited |-> FALSE, creditsHasCredits |-> FALSE, creditsBalance |-> <<>>] }

FailureResponses == {Thrown, Http(500, "upstream\nerror")}

\* The requests of the adapters, by endpoint.
ResponsesTo(request) ==
    FailureResponses \cup
    CASE request = "copilot_internal/user" -> {Http(200, b) : b \in CopilotBodies}
      [] request = "loadCodeAssist"        -> {Http(200, b) : b \in LoadBodies}
      [] request = "fetchAvailableModels"  -> {Http(200, b) : b \in ModelsBodies}
      [] request = "codex/responses"       -> {Http(200, b) : b \in CodexHeaders}

-----------------------------------------------------------------------------
(* The provider adapters.  An adapter is an async function: a step of it   *)
(* ends by throwing, by returning its data, or at an await of a fetch.     *)

Throw(msg)        == [t |-> "throw", msg |-> msg, req |-> "", data |-> [none |-> TRUE]]
Return(data)      == [t |-> "return", msg |-> "", req |-> "", data |-> data]
Await(req, held)  == [t |-> "await", msg |-> "", req |-> req, data |-> held]

NoData == [none |-> TRUE]

\* The message of the TypeError a rejected fetch throws.
FetchFailed == "fetch failed"

getAccountHint(provider, config) ==
    IF config.email # "" THEN config.email
    ELSE IF config.login # "" THEN config.login
    ELSE IF config.accountId # "" THEN config.accountId
    ELSE provider

\* token.split("."): the segments of a token.
RECURSIVE SplitDots(_, _, _)
SplitDots(s, i, cur) ==
    IF i > Len(s) THEN <<cur>>
    ELSE IF CharAt(s, i) = "." THEN <<cur>> \o SplitDots(s, i + 1, "")
    ELSE SplitDots(s, i + 1, cur \o CharAt(s, i))

\* Base64url-decoding and JSON.parse of a middle segment: the segments of the
\* model that decode to a JSON object, with the claims the adapter reads; any
\* other segment makes Buffer.from / JSON.parse throw.
SegmentClaims(seg) ==
    IF seg = "eyJjbGFpbXMifQ"
    THEN <<[chatgpt_account_id |-> "acct-jwt", chatgpt_plan_type |-> "pro",
            email |-> "jwt@example.com"]>>
    ELSE IF seg = "e30"
    THEN <<[chatgpt_account_id |-> "", chatgpt_plan_type |-> "", email |-> ""]>>
    ELSE <<>>

decodeJwtPayload(token) ==
    IF token = "" THEN <<>>
    ELSE LET parts == SplitDots(token, 1, "") IN
         IF Len(parts) # 3 THEN <<>> ELSE SegmentClaims(parts[2])

\* fetchCopilotQuota up to its fetch, and after the response.
fetchCopilotQuota(config) ==
    IF config.refresh = "" THEN Throw("missing refresh token")
    ELSE Await("copilot_internal/user", NoData)

\* A plausible slip: the request issued again after a failure.
fetchCopilotQuotaRetry(resp) ==
    IF resp.kind = "throw" \/ ~ok(resp) THEN Await("copilot_internal/user", NoData)
    ELSE Return(resp.body)

fetchCopilotQuotaResume(resp) ==
    IF resp.kind = "throw" THEN Throw(FetchFailed)
    ELSE IF ~ok(resp) THEN Throw("fetch failed (" \o IntStr(resp.status) \o ")")
    ELSE Return(resp.body)

\* A plausible slip: the request issued without looking for the access token.
fetchGoogleQuotaUnchecked(config) == Await("loadCodeAssist", NoData)

\* fetchGoogleQuota up to loadCodeAssist, after its response, and after the
\* response of fetchAvailableModels.
fetchGoogleQuota(config) ==
    IF config.access = "" THEN Throw("missing access token")
    ELSE Await("loadCodeAssist", NoData)

GoogleData(loadData, hasModels, modelsData, modelsError) ==
    [loadData |-> loadData, hasModelsData |-> hasModels, modelsData |-> modelsData,
     modelsError |-> modelsError]

\* A plausible slip: the model fetch issued whether or not a project id resolved.
fetchGoogleQuotaLoadedAlways(config, resp) ==
    IF resp.kind = "throw" THEN Throw(FetchFailed)
    ELSE IF ~ok(resp) THEN Throw("loadCodeAssist failed (" \o IntStr(resp.status) \o ")")
    ELSE Await("fetchAvailableModels", resp.body)

fetchGoogleQuotaLoaded(config, resp) ==
    IF resp.kind = "throw" THEN Throw(FetchFailed)
    ELSE IF ~ok(resp) THEN Throw("loadCodeAssist failed (" \o IntStr(resp.status) \o ")")
    ELSE LET loadData == resp.body
             resolvedProjectId ==
                 IF config.projectId # "" THEN config.projectId
                 ELSE loadData.cloudaicompanionProject
         IN IF resolvedProjectId # ""
            THEN Await("fetchAvailableModels", loadData)
            ELSE Return(GoogleData(loadData, FALSE, NoData, ""))

\* A plausible slip: a model fetch that is not 2xx thrown like a failed
\* loadCodeAssist.
fetchGoogleQuotaModelsStrict(loadData, resp) ==
    IF resp.kind = "throw" THEN Throw(FetchFailed)
    ELSE IF ok(resp) THEN Return(GoogleData(loadData, TRUE, resp.body, ""))
    ELSE Throw("fetchAvailableModels failed (" \o IntStr(resp.status) \o ")")

fetchGoogleQuotaModels(loadData, resp) ==
    IF resp.kind = "throw" THEN Throw(FetchFailed)
    ELSE IF ok(resp) THEN Return(GoogleData(loadData, TRUE, resp.body, ""))
    ELSE Return(GoogleData(loadData, FALSE, NoData,
                           "fetchAvailableModels failed (" \o IntStr(resp.status) \o ")"))

\* A plausible slip: the account id taken from the token claims only.
CodexAccountIdFromToken(config) ==
    LET jwt == decodeJwtPayload(config.access) IN
    IF Len(jwt) = 1 THEN jwt[1].chatgpt_account_id ELSE ""

\* fetchOpenAICodexQuota up to its probe; the account id it resolved is held.
CodexAccountId(config) ==
    LET jwt == decodeJwtPayload(config.access) IN
    IF config.accountId # "" THEN config.accountId
    ELSE IF Len(jwt) = 1 THEN jwt[1].chatgpt_account_id
    ELSE ""

fetchOpenAICodexQuota(config) ==
    IF config.access = "" THEN Throw("missing access token")
    ELSE IF CodexAccountId(config) = "" THEN Throw("missing account id")
    ELSE Await("codex/responses", NoData)

fetchOpenAICodexQuotaResume(config, resp) ==
    IF resp.kind = "throw" THEN Throw(FetchFailed)
    ELSE IF ~ok(resp)
    THEN Throw("codex probe failed (" \o IntStr(resp.status) \o "): " \o Slice(resp.body, 180))
    ELSE LET jwt == decodeJwtPayload(config.access) IN
         Return([accountId      |-> CodexAccountId(config),
                 emailFromToken |-> IF Len(jwt) = 1 THEN jwt[1].email ELSE "",
                 planFromToken  |-> IF Len(jwt) = 1 THEN jwt[1].chatgpt_plan_type ELSE "",
                 quota          |-> resp.body])

-----------------------------------------------------------------------------
(* The task of one provider: the async callback of providers.map.          *)

Result(provider, config, kind, data, error) ==
    [provider |-> provider, config |-> config, kind |-> kind, data |-> data,
     error |-> error]

NoResult == Result("", EmptyConfig, "none", NoData, "")

KindOf(provider) ==
    CASE provider = "github-copilot"     -> "copilot"
      [] provider = "google-antigravity" -> "antigravity"
      [] provider = "google-gemini-cli"  -> "gemini-cli"
      [] provider = "openai-codex"       -> "openai-codex"
      [] OTHER                           -> "unsupported"

\* A task: where it stands, the requests it has issued, what it holds across
\* an await, and the value its promise fulfilled with.
\* status: "unstarted", "wait1" / "wait2" (a first / second fetch is in
\*         flight), "fulfilled", "rejected".
\* resps is history: the responses the task has received, in order.
Task(status, reqs, held, result) ==
    [status |-> status, reqs |-> reqs, held |-> held, result |-> result, resps |-> <<>>]

Unstarted == Task("unstarted", <<>>, NoData, NoResult)

\* No tool is executing; no text is being truncated.
NoCall == [tool |-> "", status |-> "idle", reqs |-> <<>>, resps |-> <<>>, held |-> NoData,
           ret |-> [none |-> TRUE]]
NoCell == [text |-> "", w |-> 0, out |-> <<>>]
NoNorm == [entry |-> NoResult, out |-> <<>>]
NoSlot == [owner |-> 0, pending |-> <<>>]

\* A plausible slip: no try/catch around the adapter call, so that a throwing
\* adapter rejects the promise of its task.
SettleNoCatch(task, provider, config, step) ==
    IF step.t = "throw"
    THEN [task EXCEPT !.status = "rejected"]
    ELSE IF step.t = "return"
    THEN [task EXCEPT !.status = "fulfilled",
                      !.result = Result(provider, config, KindOf(provider), step.data, "")]
    ELSE [task EXCEPT !.status = IF Len(task.reqs) = 0 THEN "wait1" ELSE "wait2",
                      !.reqs = Append(@, step.req),
                      !.held = step.data]

\* try { ... return {provider, config, kind, data: await adapter} }
\* catch (error) { return {provider, config, kind: "error", error: message} }
Settle(task, provider, config, step) ==
    IF step.t = "throw"
    THEN [task EXCEPT !.status = "fulfilled",
                      !.result = Result(provider, config, "error", NoData, step.msg)]
    ELSE IF step.t = "return"
    THEN [task EXCEPT !.status = "fulfilled",
                      !.result = Result(provider, config, KindOf(provider), step.data, "")]
    ELSE [task EXCEPT !.status = IF Len(task.reqs) = 0 THEN "wait1" ELSE "wait2",
                      !.reqs = Append(@, step.req),
                      !.held = step.data]

\* The callback up to its first await.
StartTask(provider, raw) ==
    IF ~raw.isObject
    THEN Task("fulfilled", <<>>, NoData,
              Result(provider, EmptyConfig, "error", NoData,
                     "Invalid provider config in auth.json"))
    ELSE IF provider = "github-copilot"
    THEN Settle(Unstarted, provider, raw, fetchCopilotQuota(raw))
    ELSE IF provider \in GoogleIds
    THEN Settle(Unstarted, provider, raw, fetchGoogleQuota(raw))
    ELSE IF provider = "openai-codex"
    THEN Settle(Unstarted, provider, raw, fetchOpenAICodexQuota(raw))
    ELSE Task("fulfilled", <<>>, NoData,
              Result(provider, raw, "unsupported", NoData, ""))

\* The callback resumed by the response to the fetch it awaits.
ResumeTask(task, provider, config, resp) ==
    IF provider = "github-copilot"
    THEN Settle(task, provider, config, fetchCopilotQuotaResume(resp))
    ELSE IF provider = "openai-codex"
    THEN Settle(task, provider, config, fetchOpenAICodexQuotaResume(config, resp))
    ELSE IF task.status = "wait1"
    THEN Settle(task, provider, config, fetchGoogleQuotaLoaded(config, resp))
    ELSE Settle(task, provider, config, fetchGoogleQuotaModels(task.held, resp))

-----------------------------------------------------------------------------
(* Row normalisation: the widget factory.                                  *)

Row(p, a, pl, m, v, r, pr) ==
    [provider |-> p, account |-> a, plan |-> pl, metric |-> m, value |-> v,
     reset |-> r, progressRemaining |-> pr]

\* a.localeCompare(b) < 0 for the characters of the model's identifiers:
\* punctuation before digits before letters.
Alphabet == "_-.0123456789abcdefghijklmnopqrstuvwxyz"

RECURSIVE RankFrom(_, _)
RankFrom(c, i) ==
    IF i > Len(Alphabet) THEN i
    ELSE IF CharAt(Alphabet, i) = c THEN i
    ELSE RankFrom(c, i + 1)

RECURSIVE StrLess(_, _, _)
StrLess(a, b, i) ==
    IF i > Len(b) THEN FALSE
    ELSE IF i > Len(a) THEN TRUE
    ELSE LET ra == RankFrom(CharAt(a, i), 1)
             rb == RankFrom(CharAt(b, i), 1)
         IN IF ra # rb THEN ra < rb ELSE StrLess(a, b, i + 1)

\* Array.prototype.sort by id: a stable insertion sort.
RECURSIVE InsertById(_, _)
InsertById(sorted, m) ==
    IF Len(sorted) = 0 THEN <<m>>
    ELSE IF StrLess(m.id, sorted[1].id, 1) THEN <<m>> \o sorted
    ELSE <<sorted[1]>> \o InsertById(Tail(sorted), m)

\* A plausible slip: the models left in the order of the response.
SortByIdOmitted(ms) == ms

RECURSIVE SortById(_)
SortById(ms) ==
    IF Len(ms) = 0 THEN <<>>
    ELSE InsertById(SortById(SubSeq(ms, 1, Len(ms) - 1)), ms[Len(ms)])

\* A plausible slip: a remaining fraction of exactly 1 let through.
RelevantFractionAtMostOne(m, recommendedIds) ==
    /\ m.hasQuotaInfo
    /\ \/ m.id \in recommendedIds
       \/ (Len(m.remainingFraction) = 1 /\ m.remainingFraction[1] <= 1000)

Relevant(m, recommendedIds) ==
    /\ m.hasQuotaInfo
    /\ \/ m.id \in recommendedIds
       \/ (Len(m.remainingFraction) = 1 /\ m.remainingFraction[1] < 1000)

collectGoogleModelRows(provider, account, plan, hasModelsData, modelsData) ==
    IF ~hasModelsData THEN <<>>
    ELSE IF ~modelsData.has_models THEN <<>>
    ELSE LET relevantModels ==
                 SortById(SelectSeq(modelsData.models,
                                    LAMBDA m : Relevant(m, modelsData.recommended)))
         IN [i \in 1..Len(relevantModels) |->
               LET info == relevantModels[i] IN
               Row(provider, account, plan, info.id,
                   IF Len(info.remainingFraction) = 1
                   THEN ToFixed1(info.remainingFraction[1]) \o "%" ELSE "N/A",
                   IF info.resetTime # "" THEN formatDateUtc(info.resetTime) ELSE "unknown",
                   info.remainingFraction)]

\* A plausible slip: the used percentage taken as it is, unclamped.
codexWindowFieldsUnclamped(window) ==
    IF Len(window.usedPercent) = 0 THEN [value |-> "n/a", reset |-> "unknown"]
    ELSE [value |-> ToFixed1(1000 - window.usedPercent[1]) \o "% rem",
          reset |-> formatEpochUtc(window.resetAt)]

codexWindowFields(window) ==
    IF Len(window.usedPercent) = 0 THEN [value |-> "n/a", reset |-> "unknown"]
    ELSE LET used == Max(0, Min(1000, window.usedPercent[1])) IN
         [value |-> ToFixed1(1000 - used) \o "% rem",
          reset |-> formatEpochUtc(window.resetAt)]

SnapshotValue(snapshot) ==
    IF snapshot.unlimited THEN "Unlimited"
    ELSE IF /\ Len(snapshot.percent_remaining) = 1
            /\ Len(snapshot.remaining) = 1
            /\ Len(snapshot.entitlement) = 1
    THEN ToFixed1(snapshot.percent_remaining[1]) \o "% (" \o IntStr(snapshot.remaining[1])
             \o "/" \o IntStr(snapshot.entitlement[1]) \o ")"
    ELSE "Partial snapshot data"

\* A plausible slip: the reset date given a row of its own, as the list view of
\* the earlier version did.
CopilotRowsResetRow(entry) ==
    LET data    == entry.data
        account == IF data.login # "" THEN data.login
                   ELSE getAccountHint(entry.provider, entry.config)
        plan    == IF data.copilot_plan # "" THEN data.copilot_plan
                   ELSE IF data.sku # "" THEN data.sku ELSE "unknown"
    IN (IF data.access_type_sku # ""
        THEN <<Row(entry.provider, account, plan, "sku", data.access_type_sku, "-", <<>>)>>
        ELSE <<>>)
       \o
       (IF data.has_snapshots
        THEN [i \in 1..Len(data.quota_snapshots) |->
                Row(entry.provider, account, plan, data.quota_snapshots[i].id,
                    SnapshotValue(data.quota_snapshots[i].snapshot),
                    IF data.quota_reset_date_utc # ""
                    THEN formatDateUtc(data.quota_reset_date_utc) ELSE "-",
                    <<>>)]
        ELSE <<Row(entry.provider, account, plan, "quota", "No snapshot data", "-", <<>>)>>)
       \o
       (IF data.quota_reset_date_utc # ""
        THEN <<Row(entry.provider, account, plan, "next_reset",
                   formatDateUtc(data.quota_reset_date_utc), "-", <<>>)>>
        ELSE <<>>)

CopilotRows(entry) ==
    LET data    == entry.data
        account == IF data.login # "" THEN data.login
                   ELSE getAccountHint(entry.provider, entry.config)
        plan    == IF data.copilot_plan # "" THEN data.copilot_plan
                   ELSE IF data.sku # "" THEN data.sku ELSE "unknown"
    IN (IF data.access_type_sku # ""
        THEN <<Row(entry.provider, account, plan, "sku", data.access_type_sku, "-", <<>>)>>
        ELSE <<>>)
       \o
       (IF data.has_snapshots
        THEN [i \in 1..Len(data.quota_snapshots) |->
                Row(entry.provider, account, plan, data.quota_snapshots[i].id,
                    SnapshotValue(data.quota_snapshots[i].snapshot),
                    IF data.quota_reset_date_utc # ""
                    THEN formatDateUtc(data.quota_reset_date_utc) ELSE "-",
                    <<>>)]
        ELSE <<Row(entry.provider, account, plan, "quota", "No snapshot data", "-", <<>>)>>)

\* A plausible slip: the final row decided by the model rows produced, not by
\* the presence of `models`.
GoogleRowsFinalUnlessRows(entry) ==
    LET loadData == entry.data.loadData
        account  == IF entry.config.email # "" THEN entry.config.email
                    ELSE getAccountHint(entry.provider, entry.config)
        plan     == IF loadData.tierName # "" THEN loadData.tierName
                    ELSE IF loadData.tierId # "" THEN loadData.tierId
                    ELSE IF loadData.plan # "" THEN loadData.plan
                    ELSE IF loadData.subscriptionPlan # "" THEN loadData.subscriptionPlan
                    ELSE "unknown"
    IN (IF Len(loadData.availablePromptCredits) = 1
        THEN <<Row(entry.provider, account, plan, "prompt_credits",
                   IntStr(loadData.availablePromptCredits[1]), "-", <<>>)>>
        ELSE <<>>)
       \o collectGoogleModelRows(entry.provider, account, plan,
                                 entry.data.hasModelsData, entry.data.modelsData)
       \o (IF entry.data.modelsError # ""
           THEN <<Row(entry.provider, account, plan, "model_quotas",
                      entry.data.modelsError, "-", <<>>)>>
           ELSE <<>>)
       \o (IF /\ Len(loadData.availablePromptCredits) = 0
              /\ Len(collectGoogleModelRows(entry.provider, account, plan,
                                            entry.data.hasModelsData,
                                            entry.data.modelsData)) = 0
              /\ entry.data.modelsError = ""
           THEN <<Row(entry.provider, account, plan, "quota", "No quota data", "-", <<>>)>>
           ELSE <<>>)

GoogleRows(entry) ==
    LET loadData == entry.data.loadData
        account  == IF entry.config.email # "" THEN entry.config.email
                    ELSE getAccountHint(entry.provider, entry.config)
        plan     == IF loadData.tierName # "" THEN loadData.tierName
                    ELSE IF loadData.tierId # "" THEN loadData.tierId
                    ELSE IF loadData.plan # "" THEN loadData.plan
                    ELSE IF loadData.subscriptionPlan # "" THEN loadData.subscriptionPlan
                    ELSE "unknown"
        hasModels == entry.data.hasModelsData /\ entry.data.modelsData.has_models
    IN (IF Len(loadData.availablePromptCredits) = 1
        THEN <<Row(entry.provider, account, plan, "prompt_credits",
                   IntStr(loadData.availablePromptCredits[1]), "-", <<>>)>>
        ELSE <<>>)
       \o collectGoogleModelRows(entry.provider, account, plan,
                                 entry.data.hasModelsData, entry.data.modelsData)
       \o (IF entry.data.modelsError # ""
           THEN <<Row(entry.provider, account, plan, "model_quotas",
                      entry.data.modelsError, "-", <<>>)>>
           ELSE <<>>)
       \o (IF /\ Len(loadData.availablePromptCredits) = 0
              /\ ~hasModels
              /\ entry.data.modelsError = ""
           THEN <<Row(entry.provider, account, plan, "quota", "No quota data", "-", <<>>)>>
           ELSE <<>>)

CodexRows(entry) ==
    LET quota   == entry.data.quota
        account == IF entry.data.emailFromToken # "" THEN entry.data.emailFromToken
                   ELSE IF entry.config.email # "" THEN entry.config.email
                   ELSE IF entry.data.accountId # "" THEN entry.data.accountId
                   ELSE getAccountHint(entry.provider, entry.config)
        plan    == IF quota.planType # "" THEN quota.planType
                   ELSE IF entry.data.planFromToken # "" THEN entry.data.planFromToken
                   ELSE "unknown"
        primary   == codexWindowFields(quota.primary)
        secondary == codexWindowFields(quota.secondary)
    IN <<Row(entry.provider, account, plan, "codex_primary", primary.value,
             primary.reset, <<>>),
         Row(entry.provider, account, plan, "codex_secondary", secondary.value,
             secondary.reset, <<>>)>>
       \o (IF Len(quota.primaryOverSecondaryPercent) = 1
           THEN <<Row(entry.provider, account, plan, "primary_over_secondary",
                      ToFixed1(quota.primaryOverSecondaryPercent[1]) \o "%", "-", <<>>)>>
           ELSE <<>>)
       \o (IF quota.creditsUnlimited
           THEN <<Row(entry.provider, account, plan, "credits", "Unlimited", "-", <<>>)>>
           ELSE IF quota.creditsHasCredits /\ Len(quota.creditsBalance) = 1
           THEN <<Row(entry.provider, account, plan, "credits",
                      ToFixed2(quota.creditsBalance[1]), "-", <<>>)>>
           ELSE <<>>)

\* The rows one entry of providerResults contributes (one turn of the for loop).
EntryRows(entry) ==
    IF entry.kind = "copilot" THEN CopilotRows(entry)
    ELSE IF entry.kind \in {"antigravity", "gemini-cli"} THEN GoogleRows(entry)
    ELSE IF entry.kind = "openai-codex" THEN CodexRows(entry)
    ELSE LET account == getAccountHint(entry.provider, entry.config)
             plan    == IF entry.config.plan # "" THEN entry.config.plan
                        ELSE IF entry.config.subscriptionPlan # ""
                        THEN entry.config.subscriptionPlan ELSE "unknown"
         IN IF entry.kind = "error"
            THEN <<Row(entry.provider, account, plan, "error",
                       "Failed to fetch quota: " \o entry.error, "-", <<>>)>>
            ELSE <<Row(entry.provider, account, plan, "quota",
                       "Unavailable for this provider", "-", <<>>)>>

RECURSIVE CollectRows(_)
CollectRows(providerResults) ==
    IF Len(providerResults) = 0 THEN <<>>
    ELSE EntryRows(providerResults[1]) \o CollectRows(Tail(providerResults))

\* The placeholder as the specification words it.
PlaceholderRowAllNoData == Row("No data", "No data", "No data", "No data", "No data", "-", <<>>)

PlaceholderRow == Row("-", "-", "-", "quota", "No data", "-", <<>>)

\* A plausible slip: the empty-table check left out.
WithoutPlaceholder(collected) == collected

\* `if (rows.length === 0) rows.push(placeholder)`
WithPlaceholder(collected) ==
    IF Len(collected) = 0 THEN <<PlaceholderRow>> ELSE collected

\* The rows the widget factory builds from providerResults.
FactoryRows(providerResults) == WithPlaceholder(CollectRows(providerResults))

-----------------------------------------------------------------------------
(* Rows for the layout engine taken on its own.                            *)

RowPool ==
    { Row("github-copilot", "octocat", "individual", "premium_interactions",
          "30.0% (3/10)", "01 Feb 00:00", <<>>),
      Row("google-gemini-cli", "developer@example.com", "Gemini Code Assist",
          "gemini-2.5-pro", "45.0%", "01 Feb 00:00", <<450>>),
      Row("openai-codex", "dev@example.com", "plus", "error",
          "Failed to fetch quota: codex probe failed (500): upstream\nerror",
          "-", <<>>),
      Row("-", "-", "-", "quota", "No data", "-", <<>>) }

RowSets == {rs \in SeqsUpTo(RowPool, MaxRows) : Len(rs) >= 1}

-----------------------------------------------------------------------------
(* The render callback, step by step.                                      *)

LoopState == [pc |-> lpc, widths |-> widths, k |-> k, reduced |-> reduced, dec |-> passDec]

SetLoop(s) ==
    /\ lpc' = s.pc
    /\ widths' = s.widths
    /\ k' = s.k
    /\ reduced' = s.reduced
    /\ passDec' = s.dec

\* A plausible slip: renderQuotaTable(theme, rows), its optional width left out.
PassedWidthOmitted(w) == 0

\* The argument of `renderQuotaTable(theme, rows, width)` in the render callback.
PassedWidth(w) == w

\* render(width) is called: renderQuotaTable starts with `lines = []` and
\* computes the natural widths.
RenderStart ==
    /\ lpc \in {"idle", "done"}
    /\ \E w \in Widths :
         /\ width' = w
         /\ maxWidth' = PassedWidth(w)
         /\ SetLoop(LoopEntry(rows, PassedWidth(w)))
    /\ lines' = <<>>
    /\ UNCHANGED rows

WhileCheck ==
    /\ lpc = "while"
    /\ SetLoop(whileCheck(LoopState, maxWidth))
    /\ UNCHANGED <<rows, width, maxWidth, lines>>

ForStep ==
    /\ lpc = "for"
    /\ SetLoop(forStep(LoopState, maxWidth))
    /\ UNCHANGED <<rows, width, maxWidth, lines>>

\* The lines are built and returned, with the footer of the render callback.
Emit ==
    /\ lpc = "emit"
    /\ lines' = Append(TableLines(rows, widths, maxWidth), footerLine(width))
    /\ lpc' = "done"
    /\ UNCHANGED <<rows, width, maxWidth, widths, k, reduced, passDec>>

\* The layout engine taken on its own: a widget showing any rows.
LayoutInit ==
    /\ rows \in RowSets
    /\ authFile = [state |-> "ok", entries |-> <<>>]
    /\ pc = "detached"
    /\ tasks = <<>>
    /\ notes = <<>>
    /\ widget = TRUE
    /\ timer = "none"
    /\ firstSettled = 0
    /\ call = NoCall
    /\ cell = NoCell
    /\ norm = NoNorm
    /\ renders = <<>>
    /\ invs = <<>>
    /\ slot = NoSlot
    /\ lpc = "idle"
    /\ width = 0
    /\ maxWidth = 0
    /\ widths = <<>>
    /\ k = 1
    /\ reduced = FALSE
    /\ passDec = {}
    /\ lines = <<>>

LayoutNext ==
    \/ RenderStart /\ UNCHANGED <<hvars, tvars>>
    \/ WhileCheck /\ UNCHANGED <<hvars, tvars>>
    \/ ForStep /\ UNCHANGED <<hvars, tvars>>
    \/ Emit /\ UNCHANGED <<hvars, tvars>>

SpecLayout == LayoutInit /\ [][LayoutNext]_vars

-----------------------------------------------------------------------------
(* Properties of the layout engine (checked under SpecLayout).             *)

LineWidths == [i \in 1..Len(lines) |-> visibleWidth(lines[i].text)]

NaturalTotal == totalWidth(NaturalWidths(rows))

\* The number of places where consecutive rows differ in provider, among the
\* first n rows.
Transitions(n) ==
    Cardinality({i \in 1..(n - 1) : rows[i].provider # rows[i + 1].provider})

\* C1: for a target width of at least 80 (the seven floors, 58, and the fixed
\* overhead, 22), every line the render callback returns (title, borders,
\* header, data rows, closing border, footer) is at most that wide.
C1_LinesFitFromFloorTotal ==
    (lpc = "done" /\ width >= 80) =>
        \A i \in 1..Len(lines) : LineWidths[i] <= width

\* C1 witness: a table naturally wider than 80 columns rendered at width 80,
\* whose borders and rows then take exactly the 80 columns.
C1_Witness ==
    /\ lpc = "done"
    /\ width = 80
    /\ NaturalTotal > 80
    /\ Len(lines) >= 7
    /\ LineWidths[2] = 80
    /\ LineWidths[5] = 80

\* C2: for every positive target width, every emitted line, the title line
\* included, is at most that wide.  (The title is pushed without truncation.)
C2_EveryLineWithinWidth ==
    (lpc = "done" /\ width > 0) =>
        \A i \in 1..Len(lines) : LineWidths[i] <= width

\* The position of column c in an order (0 when it is not in it).
PosIn(order, c) ==
    IF \E p \in 1..Len(order) : order[p] = c
    THEN CHOOSE p \in 1..Len(order) : order[p] = c
    ELSE 0

\* A step of the for loop respects `order`: the column it decrements is in the
\* order, loses one unit, and every column before it in the order is at its
\* floor or has already been decremented in this pass.
StepFollows(order) ==
    lpc = "for" =>
        \A c \in Cols :
            widths'[c] < widths[c] =>
                /\ widths'[c] = widths[c] - 1
                /\ PosIn(order, c) > 0
                /\ \A d \in Cols :
                     (PosIn(order, d) > 0 /\ PosIn(order, d) < PosIn(order, c)) =>
                         (widths[d] <= minColumnWidths[d] \/ d \in passDec)

C4_RowAndSeparatorLines ==
    lpc = "done" =>
        LET n == Len(rows)
            RowPos(j) == 4 + j + Transitions(j)
        IN /\ Len(lines) = 4 + n + Transitions(n) + 1 + 1
           /\ \A j \in 1..n :
                /\ lines[RowPos(j)].kind = "row"
                /\ lines[RowPos(j)].text = renderRow(Cells(rows[j]), widths, maxWidth)
           /\ \A i \in 5..(Len(lines) - 1) :
                (\A j \in 1..n : i # RowPos(j)) => lines[i].kind = "border"
           /\ Cardinality({i \in 1..Len(lines) : lines[i].kind = "row"}) = n
           /\ <<lines[1].kind, lines[2].kind, lines[3].kind, lines[4].kind>>
                = <<"title", "border", "header", "border">>

\* C4 witness: three rows, the provider changing after the first row only:
\* one separator among the rows, nine lines before the footer.
C4_Witness ==
    /\ lpc = "done"
    /\ Len(rows) = 3
    /\ rows[1].provider # rows[2].provider
    /\ rows[2].provider = rows[3].provider
    /\ Len(lines) = 10
    /\ lines[6].kind = "border"
    /\ lines[7].kind = "row"
    /\ lines[8].kind = "row"

\* The floors and caps of the seven columns, as documented.
ColumnFloors == <<8, 10, 8, 8, 8, 8, 8>>
ColumnCaps == <<14, 18, 12, 14, 14, 8, 14>>

\* C16: from the start of a render call on, every column is at most its
\* natural width, which is at most its cap, and at least the smaller of its
\* natural width and its floor; so a column that starts at or below its floor
\* keeps its natural width, and Account is never reduced below 10.
C16_NeverBelowFloor ==
    lpc # "idle" =>
        LET natural == NaturalWidths(rows) IN
        \A c \in Cols :
            /\ Min(natural[c], ColumnFloors[c]) <= widths[c]
            /\ widths[c] <= natural[c]
            /\ natural[c] <= ColumnCaps[c]
            /\ natural[c] <= ColumnFloors[c] => widths[c] = natural[c]
            /\ (c = 2 /\ widths[c] < natural[c]) => widths[c] >= 10

\* C16 witness: a render call on a width too small for the floors has ended
\* with Account shrunk to 10, every column that began above its floor at its
\* floor, and the table still wider than the target.
C16_Witness ==
    /\ lpc = "done"
    /\ NaturalWidths(rows)[2] > 10
    /\ widths[2] = 10
    /\ \A c \in Cols : widths[c] = Min(NaturalWidths(rows)[c], ColumnFloors[c])
    /\ \E c \in Cols : widths[c] < ColumnFloors[c]
    /\ totalWidth(widths) > maxWidth

-----------------------------------------------------------------------------
(* The quota command.                                                      *)

Note(level, text) == [level |-> level, text |-> text]

\* A plausible slip: a missing auth.json read as an empty credential store.
loadAuthErrorMissingAsEmpty(file) ==
    IF file.state = "invalid" THEN "Unexpected token in JSON" ELSE ""

\* loadAuth: the message of the error it throws, "" when it returns.
loadAuthError(file) ==
    IF file.state = "missing" THEN "auth.json not found at ~/.pi/agent/auth.json"
    ELSE IF file.state = "invalid" THEN "Unexpected token in JSON"
    ELSE ""

\* A plausible slip: Promise.any / Promise.race in place of Promise.all.
PromiseAny(ts) ==
    IF \E i \in DOMAIN ts : ts[i].status = "fulfilled" THEN "fulfilled"
    ELSE IF \A i \in DOMAIN ts : ts[i].status = "rejected" THEN "rejected"
    ELSE "pending"

\* Promise.all over the tasks: rejected as soon as one task is, fulfilled once
\* all are.
PromiseAll(ts) ==
    IF \E i \in DOMAIN ts : ts[i].status = "rejected" THEN "rejected"
    ELSE IF \A i \in DOMAIN ts : ts[i].status = "fulfilled" THEN "fulfilled"
    ELSE "pending"

providerResults == [i \in DOMAIN tasks |-> tasks[i].result]

\* The handler up to `await Promise.all(...)`: loadAuth, the notifications, and
\* every task run to its first await.
Invoke ==
    /\ pc = "idle"
    /\ IF loadAuthError(authFile) # ""
       THEN /\ notes' = Append(notes, Note("error",
                           "Error fetching quotas: " \o loadAuthError(authFile)))
            /\ pc' = "done"
            /\ UNCHANGED tasks
       ELSE IF Len(authFile.entries) = 0
       THEN /\ notes' = Append(notes, Note("warning", "No logged-in providers found"))
            /\ pc' = "done"
            /\ UNCHANGED tasks
       ELSE /\ notes' = Append(notes, Note("info", "Fetching quotas..."))
            /\ tasks' = [i \in 1..Len(authFile.entries) |->
                            StartTask(authFile.entries[i].provider, authFile.entries[i].raw)]
            /\ pc' = "awaiting"
    /\ UNCHANGED <<authFile, widget, timer, firstSettled, lvars, tvars>>

\* The response to the fetch a task awaits arrives and the task runs on.
Respond(i) ==
    /\ pc = "awaiting"
    /\ tasks[i].status \in {"wait1", "wait2"}
    /\ \E resp \in ResponsesTo(tasks[i].reqs[Len(tasks[i].reqs)]) :
         tasks' = [tasks EXCEPT ![i] =
                      ResumeTask([@ EXCEPT !.resps = Append(@, resp)],
                                 authFile.entries[i].provider,
                                 authFile.entries[i].raw, resp)]
    /\ firstSettled' = IF firstSettled = 0 /\ tasks'[i].status = "fulfilled"
                       THEN i ELSE firstSettled
    /\ UNCHANGED <<authFile, pc, notes, widget, timer, lvars, tvars>>

\* The handler after `await Promise.all(...)`: setWidget with the factory, and
\* the auto-close timer; or the catch of the handler.
FanIn ==
    /\ pc = "awaiting"
    /\ PromiseAll(tasks) # "pending"
    /\ IF PromiseAll(tasks) = "fulfilled"
       THEN /\ rows' = FactoryRows(providerResults)
            /\ widget' = TRUE
            /\ timer' = "armed"
            /\ UNCHANGED notes
       ELSE /\ notes' = Append(notes, Note("error", "Error fetching quotas: " \o FetchFailed))
            /\ UNCHANGED <<rows, widget, timer>>
    /\ pc' = "done"
    /\ UNCHANGED <<authFile, tasks, firstSettled, tvars>>
    /\ UNCHANGED <<lpc, width, maxWidth, widths, k, reduced, passDec, lines>>

\* setTimeout(() => ctx.ui.setWidget("quota", undefined), 30000)
TimerFire ==
    /\ timer = "armed"
    /\ timer' = "fired"
    /\ widget' = FALSE
    /\ UNCHANGED <<authFile, pc, tasks, notes, firstSettled, lvars, tvars>>

Init ==
    /\ authFile \in AuthFiles
    /\ pc = "idle"
    /\ tasks = <<>>
    /\ notes = <<>>
    /\ widget = FALSE
    /\ timer = "none"
    /\ firstSettled = 0
    /\ call = NoCall
    /\ cell = NoCell
    /\ norm = NoNorm
    /\ renders = <<>>
    /\ invs = <<>>
    /\ slot = NoSlot
    /\ rows = <<>>
    /\ lpc = "idle"
    /\ width = 0
    /\ maxWidth = 0
    /\ widths = <<>>
    /\ k = 1
    /\ reduced = FALSE
    /\ passDec = {}
    /\ lines = <<>>

Next ==
    \/ Invoke
    \/ \E i \in DOMAIN tasks : Respond(i)
    \/ FanIn
    \/ TimerFire

Spec == Init /\ [][Next]_vars

-----------------------------------------------------------------------------
(* Properties of the quota command (checked under Spec).                   *)

Entry(i) == authFile.entries[i]

\* The widget has been set (it is cleared again when the timer fires).
WidgetWasSet == timer # "none"

\* The entry has what its adapter needs to issue a request.
HasCredential(e) ==
    /\ e.raw.isObject
    /\ CASE e.provider = "github-copilot" -> e.raw.refresh # ""
         [] e.provider \in GoogleIds      -> e.raw.access # ""
         [] e.provider = "openai-codex"   ->
                e.raw.access # "" /\ CodexAccountId(e.raw) # ""
         [] OTHER                         -> FALSE

Failure(resp) == resp.kind = "throw" \/ ~ok(resp)

RowsOfProvider(p) == SelectSeq(rows, LAMBDA r : r.provider = p)

CountMetric(rs, m) == Cardinality({i \in 1..Len(rs) : rs[i].metric = m})

\* C5: the rows of the widget are never empty: when normalisation of all the
\* results yields no row there is exactly one row, the placeholder, and when
\* it yields rows there are exactly those rows and no placeholder.
C5_RowsNeverEmpty ==
    WidgetWasSet =>
        LET n == Len(CollectRows(providerResults)) IN
        /\ Len(rows) >= 1
        /\ IF n = 0
           THEN Len(rows) = 1 /\ rows[1].provider \notin ProviderIds
           ELSE /\ Len(rows) = n
                /\ \A r \in 1..Len(rows) :
                     \E i \in DOMAIN tasks : rows[r].provider = Entry(i).provider

\* C5 witness: a single provider whose result normalises to no row at all
\* (Copilot answering `quota_snapshots: {}` and no SKU): one row is shown.
C5_Witness ==
    /\ widget
    /\ Len(tasks) = 1
    /\ tasks[1].result.kind = "copilot"
    /\ Len(EntryRows(tasks[1].result)) = 0
    /\ Len(rows) = 1

\* C6 as stated: the placeholder row reads "No data" in its provider, account,
\* plan and metric fields.
C6_PlaceholderNoDataAcross ==
    (WidgetWasSet /\ Len(CollectRows(providerResults)) = 0) =>
        /\ Len(rows) = 1
        /\ rows[1].provider = "No data"
        /\ rows[1].account = "No data"
        /\ rows[1].plan = "No data"
        /\ rows[1].metric = "No data"

\* C6 as amended: the placeholder row has "-" as provider, account, plan and
\* reset, "quota" as metric, and reads "No data" in its value field.
C6_PlaceholderFields ==
    (WidgetWasSet /\ Len(CollectRows(providerResults)) = 0) =>
        rows = << [provider |-> "-", account |-> "-", plan |-> "-", metric |-> "quota",
                   value |-> "No data", reset |-> "-", progressRemaining |-> <<>>] >>

\* C6 witness: the placeholder is on display.
C6_Witness ==
    /\ widget
    /\ Len(CollectRows(providerResults)) = 0
    /\ rows[1].value = "No data"

\* C7: while the handler awaits, every task has been started, and every task
\* that has its credentials has issued its request; the widget is set only
\* when every task has settled, with one result per configured provider.
C7_FanOutFanIn ==
    /\ pc = "awaiting" =>
          /\ Len(tasks) = Len(authFile.entries)
          /\ \A i \in DOMAIN tasks :
               /\ tasks[i].status # "unstarted"
               /\ HasCredential(Entry(i)) => Len(tasks[i].reqs) >= 1
    /\ WidgetWasSet =>
          /\ Len(tasks) = Len(authFile.entries)
          /\ \A i \in DOMAIN tasks :
               /\ tasks[i].status = "fulfilled"
               /\ tasks[i].result.kind # "none"
               /\ tasks[i].result.provider = Entry(i).provider

\* C7 witness: the widget is set after two providers both went to the network,
\* the second having needed two requests.
C7_Witness ==
    /\ widget
    /\ Len(tasks) = 2
    /\ Len(tasks[1].resps) = 1
    /\ Len(tasks[2].resps) = 2

\* The failures that are fatal to one adapter: a credential entry that is no
\* object, a missing credential, a fetch that throws, a first response that is
\* not 2xx.
Fatal(i) ==
    \/ ~Entry(i).raw.isObject
    \/ KindOf(Entry(i).provider) # "unsupported" /\ ~HasCredential(Entry(i))
    \/ \E n \in 1..Len(tasks[i].resps) : tasks[i].resps[n].kind = "throw"
    \/ Len(tasks[i].resps) >= 1 /\ ~ok(tasks[i].resps[1])

\* A task run again from its own credential entry and its own responses.
RECURSIVE ReplayFrom(_, _, _, _)
ReplayFrom(task, e, resps, n) ==
    IF n > Len(resps) THEN task
    ELSE ReplayFrom(ResumeTask([task EXCEPT !.resps = Append(@, resps[n])],
                               e.provider, e.raw, resps[n]),
                    e, resps, n + 1)

\* C8: a failure inside one adapter becomes an Error-tagged result of that
\* provider; no task promise is ever rejected; once all have settled the widget
\* is set and no error is notified; every task is what its own credential entry
\* and its own responses make it, and the rows of each provider are the rows of
\* its own result.
C8_FailureIsolation ==
    /\ \A i \in DOMAIN tasks :
         /\ tasks[i].status # "rejected"
         /\ Fatal(i) =>
              /\ tasks[i].status = "fulfilled"
              /\ tasks[i].result.kind = "error"
              /\ tasks[i].result.provider = Entry(i).provider
         /\ (~Fatal(i) /\ tasks[i].status = "fulfilled") =>
              tasks[i].result.kind = KindOf(Entry(i).provider)
         /\ tasks[i] = ReplayFrom(StartTask(Entry(i).provider, Entry(i).raw),
                                  Entry(i), tasks[i].resps, 1)
    /\ (pc = "done" /\ authFile.state = "ok" /\ Len(authFile.entries) > 0) =>
          /\ WidgetWasSet
          /\ \A n \in 1..Len(notes) : notes[n].level # "error"
    /\ (WidgetWasSet /\ rows # <<PlaceholderRow>>) =>
          \A i \in DOMAIN tasks :
              RowsOfProvider(Entry(i).provider) = EntryRows(tasks[i].result)

\* C8 witness: the first provider failed on the network, the second succeeded,
\* and the widget shows the Error row of the one and the rows of the other.
C8_Witness ==
    /\ widget
    /\ Len(tasks) = 2
    /\ Len(tasks[1].resps) = 1
    /\ tasks[1].result.kind = "error"
    /\ tasks[2].result.kind = "openai-codex"
    /\ rows[1].metric = "error"
    /\ Len(rows) >= 3

\* C9: when auth.json is missing or is not JSON, the command shows exactly one
\* notification, an error; it starts no task (so no request), shows no
\* "Fetching quotas..." notification, sets no widget and arms no timer.
C9_CredentialStoreFatal ==
    authFile.state # "ok" =>
        /\ tasks = <<>>
        /\ ~widget
        /\ timer = "none"
        /\ rows = <<>>
        /\ Len(notes) <= 1
        /\ \A n \in 1..Len(notes) :
             notes[n].level = "error" /\ notes[n].text # "Fetching quotas..."
        /\ pc = "done" => Len(notes) = 1

\* C9 witness: the handler has run on a missing auth.json.
C9_Witness ==
    /\ pc = "done"
    /\ authFile.state = "missing"
    /\ Len(notes) = 1

\* The requests an adapter may issue, in order.
RequestPlan(provider) ==
    CASE provider = "github-copilot" -> <<"copilot_internal/user">>
      [] provider \in GoogleIds      -> <<"loadCodeAssist", "fetchAvailableModels">>
      [] provider = "openai-codex"   -> <<"codex/responses">>
      [] OTHER                       -> <<>>

\* C10: an adapter issues each of its requests at most once, in order; after a
\* failed request it issues no other; and a provider with a failed request
\* contributes exactly one Error row and nothing else, or, when it is the
\* second request that came back not 2xx, exactly one soft-error row and no
\* Error row.
C10_NoRetry ==
    \A i \in DOMAIN tasks :
        LET t    == tasks[i]
            plan == RequestPlan(Entry(i).provider)
            mine == RowsOfProvider(Entry(i).provider)
        IN /\ Len(t.reqs) <= Len(plan)
           /\ t.reqs = SubSeq(plan, 1, Len(t.reqs))
           /\ Len(t.resps) <= Len(t.reqs)
           /\ \A n \in 1..Len(t.resps) :
                Failure(t.resps[n]) => (Len(t.reqs) = n /\ t.status = "fulfilled")
           /\ (WidgetWasSet /\ \E n \in 1..Len(t.resps) : Failure(t.resps[n])) =>
                IF Len(t.resps) = 2 /\ t.resps[2].kind = "http"
                THEN CountMetric(mine, "model_quotas") = 1 /\ CountMetric(mine, "error") = 0
                ELSE CountMetric(mine, "error") = 1 /\ Len(mine) = 1

\* C10 witness: a Tiered-Model provider whose second request came back 500
\* shows one soft-error row next to its prompt-credits row.
C10_Witness ==
    /\ widget
    /\ \E i \in DOMAIN tasks :
         /\ Entry(i).provider \in GoogleIds
         /\ Len(tasks[i].reqs) = 2
         /\ Len(tasks[i].resps) = 2
         /\ tasks[i].resps[2].kind = "http"
         /\ ~ok(tasks[i].resps[2])
         /\ CountMetric(RowsOfProvider(Entry(i).provider), "model_quotas") = 1
         /\ CountMetric(RowsOfProvider(Entry(i).provider), "prompt_credits") = 1

MetricsOf(rs) == [n \in 1..Len(rs) |-> rs[n].metric]

\* Task i is a Tiered-Model task whose tier resolution succeeded and whose
\* model fetch came back with a status that is not 2xx.
SoftFailed(i) ==
    /\ Entry(i).provider \in GoogleIds
    /\ Len(tasks[i].resps) = 2
    /\ ok(tasks[i].resps[1])
    /\ tasks[i].resps[2].kind = "http"
    /\ ~ok(tasks[i].resps[2])

\* C11: when tier resolution succeeds and the model fetch is not 2xx, the
\* adapter returns (no Error result): its data are the step-1 data and a
\* modelsError text naming the status, with no model data; the rows of the
\* provider are the prompt-credits row, if credits were reported, followed by
\* one model_quotas row whose value is that text, and nothing else.
C11_SoftError ==
    \A i \in DOMAIN tasks :
        SoftFailed(i) =>
            LET res  == tasks[i].result
                mine == RowsOfProvider(Entry(i).provider)
                cred == tasks[i].resps[1].body.availablePromptCredits
            IN /\ tasks[i].status = "fulfilled"
               /\ res.kind = KindOf(Entry(i).provider)
               /\ res.error = ""
               /\ res.data.loadData = tasks[i].resps[1].body
               /\ ~res.data.hasModelsData
               /\ res.data.modelsError =
                      "fetchAvailableModels failed (" \o IntStr(tasks[i].resps[2].status) \o ")"
               /\ WidgetWasSet =>
                    /\ MetricsOf(mine) = (IF Len(cred) = 1 THEN <<"prompt_credits">> ELSE <<>>)
                                             \o <<"model_quotas">>
                    /\ mine[Len(mine)].value = res.data.modelsError
                    /\ Len(cred) = 1 => mine[1].value = IntStr(cred[1])

\* C11 witness: the widget shows a Tiered-Model provider that reported no
\* credits and whose model fetch failed: its only row is the soft-error row.
C11_Witness ==
    /\ widget
    /\ \E i \in DOMAIN tasks :
         /\ SoftFailed(i)
         /\ Len(tasks[i].resps[1].body.availablePromptCredits) = 0
         /\ MetricsOf(RowsOfProvider(Entry(i).provider)) = <<"model_quotas">>

-----------------------------------------------------------------------------
(* The callable operations get_gemini_cli_quota and get_openai_codex_quota. *)

Tools == {"get_gemini_cli_quota", "get_openai_codex_quota"}

ToolProvider(tool) ==
    IF tool = "get_gemini_cli_quota" THEN "google-gemini-cli" ELSE "openai-codex"

\* The credential stores the operations are run on.
ToolProviderLists ==
    {ps \in SeqsUpTo({"google-gemini-cli", "openai-codex", "github-copilot"}, MaxProviders) :
        Distinct(ps)}

ToolAuthFiles ==
    { [state |-> "missing", entries |-> <<>>],
      [state |-> "invalid", entries |-> <<>>] }
    \cup
    UNION { { [state |-> "ok",
               entries |-> [i \in 1..Len(ps) |-> [provider |-> ps[i], raw |-> cs[i]]]]
              : cs \in [1..Len(ps) -> ToolConfigPool] }
            : ps \in ToolProviderLists }

\* auth[provider]: <<>> when the key is absent, else <<its value>>.
Lookup(file, provider) ==
    LET found == SelectSeq(file.entries, LAMBDA e : e.provider = provider) IN
    IF Len(found) = 0 THEN <<>> ELSE <<found[1].raw>>

\* JSON.stringify(data, null, 2) and a plain message, as the text of a content item.
JsonText(data) == [json |-> TRUE, of |-> data]
PlainText(message) == [json |-> FALSE, of |-> message]

ToolSuccess(data) ==
    [content |-> <<[type |-> "text", text |-> JsonText(data)]>>,
     hasDetails |-> TRUE, details |-> data, isError |-> FALSE]

ToolError(message) ==
    [content |-> <<[type |-> "text", text |-> PlainText("Error: " \o message)]>>,
     hasDetails |-> FALSE, details |-> NoData, isError |-> TRUE]

\* A plausible slip: execute() without its try/catch.
ToolSettleNoCatch(c, step) ==
    IF step.t = "throw" THEN [c EXCEPT !.status = "threw"]
    ELSE IF step.t = "return"
    THEN [c EXCEPT !.status = "returned", !.ret = ToolSuccess(step.data)]
    ELSE [c EXCEPT !.status = IF Len(c.reqs) = 0 THEN "wait1" ELSE "wait2",
                   !.reqs = Append(@, step.req),
                   !.held = step.data]

\* try { ... return {content, details} } catch (error) { return {content, isError: true} }
ToolSettle(c, step) ==
    IF step.t = "throw"
    THEN [c EXCEPT !.status = "returned", !.ret = ToolError(step.msg)]
    ELSE IF step.t = "return"
    THEN [c EXCEPT !.status = "returned", !.ret = ToolSuccess(step.data)]
    ELSE [c EXCEPT !.status = IF Len(c.reqs) = 0 THEN "wait1" ELSE "wait2",
                   !.reqs = Append(@, step.req),
                   !.held = step.data]

\* execute() up to its first await.
ToolFirstStep(tool) ==
    LET config == Lookup(authFile, ToolProvider(tool)) IN
    IF loadAuthError(authFile) # "" THEN Throw(loadAuthError(authFile))
    ELSE IF Len(config) = 0 THEN Throw(ToolProvider(tool) \o " config not found in auth.json")
    ELSE IF tool = "get_gemini_cli_quota" THEN fetchGoogleQuota(config[1])
    ELSE fetchOpenAICodexQuota(config[1])

\* execute() resumed by the response to the fetch it awaits.
ToolNextStep(c, resp) ==
    LET config == Lookup(authFile, ToolProvider(c.tool))[1] IN
    IF c.tool = "get_openai_codex_quota" THEN fetchOpenAICodexQuotaResume(config, resp)
    ELSE IF c.status = "wait1" THEN fetchGoogleQuotaLoaded(config, resp)
    ELSE fetchGoogleQuotaModels(c.held, resp)

ToolExecute(tool) ==
    /\ call.status = "idle"
    /\ call' = ToolSettle([call EXCEPT !.tool = tool], ToolFirstStep(tool))
    /\ UNCHANGED <<hvars, lvars, cell, norm, renders, invs, slot>>

ToolRespond ==
    /\ call.status \in {"wait1", "wait2"}
    /\ \E resp \in ResponsesTo(call.reqs[Len(call.reqs)]) :
         call' = ToolSettle([call EXCEPT !.resps = Append(@, resp)], ToolNextStep(call, resp))
    /\ UNCHANGED <<hvars, lvars, cell, norm, renders, invs, slot>>

ToolsInit ==
    /\ authFile \in ToolAuthFiles
    /\ call = NoCall
    /\ cell = NoCell
    /\ norm = NoNorm
    /\ renders = <<>>
    /\ invs = <<>>
    /\ slot = NoSlot
    /\ pc = "detached"
    /\ tasks = <<>>
    /\ notes = <<>>
    /\ widget = FALSE
    /\ timer = "none"
    /\ firstSettled = 0
    /\ rows = <<>>
    /\ lpc = "idle"
    /\ width = 0
    /\ maxWidth = 0
    /\ widths = <<>>
    /\ k = 1
    /\ reduced = FALSE
    /\ passDec = {}
    /\ lines = <<>>

ToolsNext ==
    \/ \E tool \in Tools : ToolExecute(tool)
    \/ ToolRespond

SpecTools == ToolsInit /\ [][ToolsNext]_vars

-----------------------------------------------------------------------------
(* Properties of the callable operations (checked under SpecTools).        *)

\* The credential entry the running operation reads (<<>>: none).
CallConfig == Lookup(authFile, ToolProvider(call.tool))

CallStarted == call.status # "idle"

\* The operation cannot deliver its data: no credential store, no entry, a
\* missing credential, a fetch that throws, a first response that is not 2xx.
CallFatal ==
    \/ authFile.state # "ok"
    \/ Len(CallConfig) = 0
    \/ CallConfig[1].access = ""
    \/ call.tool = "get_openai_codex_quota" /\ CallConfig[1].accountId = ""
         /\ CallConfig[1].access # "h.eyJjbGFpbXMifQ.s"
    \/ \E n \in 1..Len(call.resps) : call.resps[n].kind = "throw"
    \/ Len(call.resps) >= 1 /\ ~ok(call.resps[1])

\* C12: the operations never throw; when the operation fails (no credential
\* store, no entry, missing credential, a fetch that throws, a response that is
\* not 2xx and fatal to the adapter) they return a plain text "Error: ..." with
\* isError = true and no details; when the adapter delivers its data (a model
\* fetch that is not 2xx is the adapter's soft error, carried in the data as
\* modelsError) they return the data as JSON text and as details, without
\* error flag.
C12_ToolsNeverThrow ==
    /\ call.status # "threw"
    /\ (CallStarted /\ CallFatal) =>
          /\ call.status = "returned"
          /\ call.ret.isError
          /\ ~call.ret.hasDetails
          /\ Len(call.ret.content) = 1
          /\ ~call.ret.content[1].text.json
          /\ SubSeq(call.ret.content[1].text.of, 1, 7) = "Error: "
    /\ (call.status = "returned" /\ ~CallFatal) =>
          /\ ~call.ret.isError
          /\ call.ret.hasDetails
          /\ Len(call.ret.content) = 1
          /\ call.ret.content[1].text.json
          /\ call.ret.content[1].text.of = call.ret.details
          /\ IF call.tool = "get_openai_codex_quota"
             THEN call.ret.details.quota = call.resps[1].body
             ELSE call.ret.details.loadData = call.resps[1].body

\* C12 witness: get_gemini_cli_quota has returned after a model fetch that
\* came back 500: its data, carrying modelsError, without error flag.
C12_Witness ==
    /\ call.status = "returned"
    /\ call.tool = "get_gemini_cli_quota"
    /\ Len(call.resps) = 2
    /\ ~ok(call.resps[2])
    /\ call.resps[2].kind = "http"
    /\ ~call.ret.isError
    /\ call.ret.details.modelsError # ""

\* The access tokens of the model that carry no readable claims: one segment,
\* two segments, three segments with a middle segment that is no JSON.
MalformedTokens == {"access-token", "a.b", "h.bad.s"}

\* C13: decoding an absent or malformed token yields "no claims"; the
\* Header-Probe adapter run on a malformed token issues its probe and returns
\* its data under the account id of the credential when there is one, and
\* fails with "missing account id", without any request, when there is none.
C13_JwtDecodingNeverFails ==
    /\ \A n \in 1..Len(authFile.entries) :
         Entry(n).raw.access \in MalformedTokens \cup {""} =>
             decodeJwtPayload(Entry(n).raw.access) = <<>>
    /\ (/\ CallStarted
        /\ call.tool = "get_openai_codex_quota"
        /\ Len(CallConfig) = 1
        /\ CallConfig[1].access \in MalformedTokens) =>
          IF CallConfig[1].accountId # ""
          THEN /\ Len(call.reqs) = 1
               /\ (call.status = "returned" /\ ok(call.resps[1])) =>
                     /\ ~call.ret.isError
                     /\ call.ret.details.accountId = CallConfig[1].accountId
                     /\ call.ret.details.emailFromToken = ""
                     /\ call.ret.details.planFromToken = ""
               /\ (call.status = "returned" /\ call.ret.isError) =>
                     /\ ~ok(call.resps[1])
                     /\ call.ret.content[1].text.of # "Error: missing account id"
          ELSE /\ call.status = "returned"
               /\ call.reqs = <<>>
               /\ call.ret.isError
               /\ call.ret.content[1].text.of = "Error: missing account id"

\* C13 witness: the Header-Probe operation has returned its data for a
\* credential with a two-segment token and an account id.
C13_Witness ==
    /\ call.status = "returned"
    /\ call.tool = "get_openai_codex_quota"
    /\ Len(CallConfig) = 1
    /\ CallConfig[1].access = "a.b"
    /\ CallConfig[1].accountId = "acct-2"
    /\ ~call.ret.isError
    /\ call.ret.details.accountId = "acct-2"

\* The running operation is get_gemini_cli_quota on a credential with an
\* access token: the Tiered-Model adapter runs.
TieredCall ==
    /\ CallStarted
    /\ call.tool = "get_gemini_cli_quota"
    /\ Len(CallConfig) = 1
    /\ CallConfig[1].access # ""

\* A project id is known after step 1: from the credential or from the response.
ProjectResolved(config, body) ==
    config.projectId # "" \/ body.cloudaicompanionProject # ""

\* C17: the Tiered-Model adapter first issues the tier-resolution request,
\* and issues the model-quota request if and only if the answer to the first
\* was 2xx and a project id is known from the credential or from that answer;
\* a first answer that is not 2xx makes the adapter fail ("loadCodeAssist
\* failed") with no second request, and an unresolved project id makes it
\* return its data with neither model data nor modelsError.
C17_StepOrdering ==
    TieredCall =>
        /\ Len(call.reqs) >= 1
        /\ call.reqs[1] = "loadCodeAssist"
        /\ Len(call.resps) = 0 => Len(call.reqs) = 1
        /\ Len(call.resps) >= 1 =>
              /\ Len(call.reqs) = 2 <=>
                    (ok(call.resps[1]) /\ ProjectResolved(CallConfig[1], call.resps[1].body))
              /\ Len(call.reqs) = 2 => call.reqs[2] = "fetchAvailableModels"
              /\ (call.resps[1].kind = "http" /\ ~ok(call.resps[1])) =>
                    /\ call.status = "returned"
                    /\ call.ret.isError
                    /\ call.ret.content[1].text.of =
                          "Error: loadCodeAssist failed ("
                              \o IntStr(call.resps[1].status) \o ")"
              /\ (ok(call.resps[1]) /\ ~ProjectResolved(CallConfig[1], call.resps[1].body)) =>
                    /\ call.status = "returned"
                    /\ ~call.ret.isError
                    /\ call.ret.details.loadData = call.resps[1].body
                    /\ ~call.ret.details.hasModelsData
                    /\ call.ret.details.modelsError = ""

\* C17 witness: the model-quota request was issued on the project id of the
\* credential, the tier-resolution answer naming none.
C17_Witness ==
    /\ TieredCall
    /\ CallConfig[1].projectId = "proj-cfg"
    /\ Len(call.resps) >= 1
    /\ ok(call.resps[1])
    /\ call.resps[1].body.cloudaicompanionProject = ""
    /\ call.reqs = <<"loadCodeAssist", "fetchAvailableModels">>

-----------------------------------------------------------------------------
(* Properties of row normalisation (checked under Spec).                   *)

\* What a window row of the Header-Probe provider must show for the window
\* headers it was built from (percentages in tenths of a percent).
WindowRowAsDocumented(row, window) ==
    IF Len(window.usedPercent) = 0
    THEN row.value = "n/a"
    ELSE LET p == window.usedPercent[1] IN
         /\ row.value = (IF p <= 0 THEN "100.0"
                         ELSE IF p >= 1000 THEN "0.0"
                         ELSE IntStr((1000 - p) \div 10) \o "." \o IntStr((1000 - p) % 10))
                        \o "% rem"
         /\ p = 425 => row.value = "57.5% rem"
         /\ row.reset = (IF window.resetAt = <<1700000000>> THEN "14 Nov 22:13"
                         ELSE IF window.resetAt \in {<<>>, <<0>>} THEN "unknown"
                         ELSE "01 Jan 00:00")

\* C14: a successful Header-Probe result always yields its two window rows,
\* codex_primary then codex_secondary, first among the rows of the provider;
\* a window with a used percentage p shows 100 - p with one decimal and
\* "% rem", p clamped to 0..100, and the reset formatted from the reset-at
\* epoch; a window without used percentage shows "n/a".
C14_CodexWindowRows ==
    WidgetWasSet =>
        \A i \in DOMAIN tasks :
            tasks[i].result.kind = "openai-codex" =>
                LET mine  == RowsOfProvider(Entry(i).provider)
                    quota == tasks[i].resps[1].body
                IN /\ Len(mine) >= 2
                   /\ CountMetric(mine, "codex_primary") = 1
                   /\ CountMetric(mine, "codex_secondary") = 1
                   /\ mine[1].metric = "codex_primary"
                   /\ mine[2].metric = "codex_secondary"
                   /\ WindowRowAsDocumented(mine[1], quota.primary)
                   /\ WindowRowAsDocumented(mine[2], quota.secondary)

\* C14 witness: the widget shows "57.5% rem" for a primary window used to
\* 42.5 percent, and "0.0% rem" for a secondary window reported at 120 percent.
C14_Witness ==
    /\ widget
    /\ \E n \in 1..(Len(rows) - 1) :
         /\ rows[n].metric = "codex_primary"
         /\ rows[n].value = "57.5% rem"
         /\ rows[n].reset = "14 Nov 22:13"
         /\ rows[n + 1].metric = "codex_secondary"
         /\ rows[n + 1].value = "0.0% rem"

-----------------------------------------------------------------------------
(* truncateCell taken on its own: a text is truncated to a width, and the  *)
(* result truncated again to the same width.                               *)

MaxCellWidth == 9
MaxTruncations == 2

CellTexts ==
    { "", "a", "abc", "abcdef", "quota", "No data", "dev@example.com",
      "ends in ~", "a\nb", "a\r\n\tb c", "\tlead", "x\fy", "Failed to fetch quota: fetch failed" }

TruncateCell ==
    /\ Len(cell.out) < MaxTruncations
    /\ cell' = [cell EXCEPT !.out =
                   Append(@, truncateCell(IF Len(@) = 0 THEN cell.text ELSE @[Len(@)], cell.w))]
    /\ UNCHANGED <<hvars, lvars, call, norm, renders, invs, slot>>

CellInit ==
    /\ \E t \in CellTexts, w \in 0..MaxCellWidth : cell = [text |-> t, w |-> w, out |-> <<>>]
    /\ authFile = [state |-> "ok", entries |-> <<>>]
    /\ call = NoCall
    /\ norm = NoNorm
    /\ renders = <<>>
    /\ invs = <<>>
    /\ slot = NoSlot
    /\ pc = "detached"
    /\ tasks = <<>>
    /\ notes = <<>>
    /\ widget = FALSE
    /\ timer = "none"
    /\ firstSettled = 0
    /\ rows = <<>>
    /\ lpc = "idle"
    /\ width = 0
    /\ maxWidth = 0
    /\ widths = <<>>
    /\ k = 1
    /\ reduced = FALSE
    /\ passDec = {}
    /\ lines = <<>>

CellNext == TruncateCell

SpecCell == CellInit /\ [][CellNext]_vars

-----------------------------------------------------------------------------
(* Properties of truncateCell (checked under SpecCell).                    *)

HasControlChar(s) == \E n \in 1..Len(s) : CharAt(s, n) \in ControlChars

KnownProviders ==
    {"github-copilot", "google-antigravity", "google-gemini-cli", "openai-codex"}

\* The credential an adapter requires is not in the entry, and the message
\* the adapter fails with.
MissingCredential(e) ==
    CASE e.provider = "github-copilot" -> e.raw.refresh = ""
      [] e.provider \in GoogleIds      -> e.raw.access = ""
      [] e.provider = "openai-codex"   ->
             \/ e.raw.access = ""
             \/ e.raw.accountId = "" /\ e.raw.access # "h.eyJjbGFpbXMifQ.s"
      [] OTHER                         -> FALSE

MissingCredentialMessage(e) ==
    CASE e.provider = "github-copilot" -> "missing refresh token"
      [] e.provider \in GoogleIds      -> "missing access token"
      [] e.provider = "openai-codex"   ->
             IF e.raw.access = "" THEN "missing access token" ELSE "missing account id"
      [] OTHER                         -> ""

\* C18: a task issues a request only for a known provider id whose credential
\* entry is an object holding the credentials its adapter requires.  A known
\* provider lacking them (no refresh token; no access token; no access token
\* or no resolvable account id) gets an Error result naming what is missing,
\* with zero requests; an unknown provider id gets zero requests, the
\* Unsupported tag, and exactly one row, metric "quota", value "Unavailable
\* for this provider" (its entry being an object; an entry that is no object
\* gets the Error result of every such entry).
C18_NoRequestWithoutCredential ==
    \A i \in DOMAIN tasks :
        LET e == Entry(i)
            t == tasks[i]
            mine == RowsOfProvider(e.provider)
        IN /\ Len(t.reqs) >= 1 =>
                (e.provider \in KnownProviders /\ e.raw.isObject /\ ~MissingCredential(e))
           /\ (e.provider \in KnownProviders /\ e.raw.isObject /\ MissingCredential(e)) =>
                /\ t.reqs = <<>>
                /\ t.status = "fulfilled"
                /\ t.result.kind = "error"
                /\ t.result.error = MissingCredentialMessage(e)
           /\ ~e.raw.isObject =>
                /\ t.reqs = <<>>
                /\ t.status = "fulfilled"
                /\ t.result.kind = "error"
           /\ (e.provider \notin KnownProviders /\ e.raw.isObject) =>
                /\ t.reqs = <<>>
                /\ t.status = "fulfilled"
                /\ t.result.kind = "unsupported"
                /\ WidgetWasSet =>
                     /\ Len(mine) = 1
                     /\ mine[1].metric = "quota"
                     /\ mine[1].value = "Unavailable for this provider"

\* C18 witness: the widget shows the one row of an unknown provider next to
\* the Error row of a Header-Probe provider whose account id could not be
\* resolved; neither issued a request.
C18_Witness ==
    /\ widget
    /\ Len(tasks) = 2
    /\ Entry(1).provider = "anthropic"
    /\ rows[1].value = "Unavailable for this provider"
    /\ Entry(2).provider = "openai-codex"
    /\ Entry(2).raw.access # ""
    /\ rows[2].value = "Failed to fetch quota: missing account id"
    /\ tasks[1].reqs = <<>>
    /\ tasks[2].reqs = <<>>

\* The rows of the providers of the credential store, provider after provider
\* in the order of the store, from provider n on.
RECURSIVE RowsInStoreOrder(_)
RowsInStoreOrder(n) ==
    IF n > Len(authFile.entries) THEN <<>>
    ELSE RowsOfProvider(Entry(n).provider) \o RowsInStoreOrder(n + 1)

\* The per-model rows among the rows of a Tiered-Model provider.
ModelRows(rs) ==
    SelectSeq(rs, LAMBDA r : r.metric \notin {"prompt_credits", "model_quotas", "quota", "error"})

\* What the rows of the widget are, told from the credential store and from
\* the responses each task received, whatever the order they arrived in.
RowsFromResponses ==
    FactoryRows([n \in DOMAIN tasks |->
                    ReplayFrom(StartTask(Entry(n).provider, Entry(n).raw),
                               Entry(n), tasks[n].resps, 1).result])

\* C19: the rows the widget shows (the placeholder apart) are the rows of the
\* first provider of the credential store, then those of the second, and so on, whatever the order
\* in which the adapters completed: they are determined by the store and by
\* the responses each adapter received.  The rows of a Subscription-Snapshot
\* provider follow the order of the buckets in the response, after the SKU row;
\* the per-model rows of a Tiered-Model provider are in ascending order of
\* metric name, after the credits row.
C19_RowOrder ==
    (widget /\ rows[1].provider # "-") =>
        /\ rows = RowsInStoreOrder(1)
        /\ rows = RowsFromResponses
        /\ \A i \in DOMAIN tasks :
             LET mine == RowsOfProvider(Entry(i).provider)
                 res  == tasks[i].result
             IN /\ res.kind = "copilot" =>
                     MetricsOf(mine) =
                        (IF res.data.access_type_sku # "" THEN <<"sku">> ELSE <<>>)
                        \o (IF res.data.has_snapshots
                            THEN [n \in 1..Len(res.data.quota_snapshots) |->
                                     res.data.quota_snapshots[n].id]
                            ELSE <<"quota">>)
                /\ res.kind \in {"antigravity", "gemini-cli"} =>
                     /\ LET models == ModelRows(mine) IN
                        \A n \in 1..(Len(models) - 1) :
                            StrLess(models[n].metric, models[n + 1].metric, 1)
                     /\ \A n \in 2..Len(mine) : mine[n].metric # "prompt_credits"
                     /\ \A n \in 1..(Len(mine) - 1) : mine[n].metric # "model_quotas"

\* C19 witness: the second provider of the store completed first, the first
\* one later, with two per-model rows; the widget shows the rows of the first
\* provider first, its model rows sorted, and the rows of the second last.
C19_Witness ==
    /\ widget
    /\ Len(tasks) = 2
    /\ firstSettled = 2
    /\ Len(tasks[1].resps) = 2
    /\ Len(ModelRows(RowsOfProvider(Entry(1).provider))) = 2
    /\ rows[1].provider = Entry(1).provider
    /\ rows[Len(rows)].provider = Entry(2).provider
    /\ Len(RowsOfProvider(Entry(2).provider)) >= 2

\* C20: a successful Subscription-Snapshot response with no snapshot bucket
\* at all, the snapshot map being absent or being empty, yields exactly one
\* row with value "No snapshot data" for that provider.
C20_NoSnapshotDataRow ==
    WidgetWasSet =>
        \A i \in DOMAIN tasks :
            (/\ tasks[i].result.kind = "copilot"
             /\ Len(tasks[i].resps[1].body.quota_snapshots) = 0) =>
                Cardinality({n \in 1..Len(rows) :
                                /\ rows[n].provider = Entry(i).provider
                                /\ rows[n].value = "No snapshot data"}) = 1

-----------------------------------------------------------------------------
(* One turn of the factory's loop taken on its own: one provider result    *)
(* is normalised to the rows it contributes.                               *)

MaxModels == 2
MaxBuckets == 2

ModelIds == {"claude-sonnet-4", "gemini-2.5-flash", "gemini-2.5-pro"}

\* An entry of `models`: without quotaInfo, or with a quotaInfo whose
\* remainingFraction is undefined, 0, 0.45 or 1.
ModelVariants ==
    UNION { { Model(id, FALSE, <<>>, ""),
              Model(id, TRUE, <<>>, ""),
              Model(id, TRUE, <<0>>, "not a date"),
              Model(id, TRUE, <<450>>, "2026-02-01T00:00:00Z"),
              Model(id, TRUE, <<1000>>, "") } : id \in ModelIds }

IdsOf(seq) == [n \in 1..Len(seq) |-> seq[n].id]

\* `models` is an object: its keys are distinct.
ModelMaps(n) == {ms \in SeqsUpTo(ModelVariants, n) : Distinct(IdsOf(ms))}

\* agentModelSorts[0].groups[*].modelIds taken together.
RecommendedSets == SUBSET {"claude-sonnet-4", "gemini-2.5-pro"}

NormModelsBodies(n) ==
    { [has_models |-> FALSE, models |-> <<>>, recommended |-> {}] }
    \cup { [has_models |-> TRUE, models |-> ms, recommended |-> r] :
             ms \in ModelMaps(n), r \in RecommendedSets }

\* What fetchGoogleQuota returns for a credential entry: the tier resolution
\* answered 200, and the model fetch, when there is one, answered 200 or 500.
NormGoogleData(config, n) ==
    UNION { LET step == fetchGoogleQuotaLoaded(config, Http(200, ld)) IN
            IF step.t = "return" THEN {step.data}
            ELSE { fetchGoogleQuotaModels(ld, r).data :
                     r \in {Http(500, "upstream\nerror")}
                           \cup {Http(200, b) : b \in NormModelsBodies(n)} } :
            ld \in LoadBodies }

BucketVariants ==
    UNION { { [id |-> id, snapshot |-> Snapshot(<<>>, <<>>, <<>>, TRUE)],
              [id |-> id, snapshot |-> Snapshot(<<10>>, <<3>>, <<300>>, FALSE)],
              [id |-> id, snapshot |-> Snapshot(<<10>>, <<>>, <<>>, FALSE)] } :
            id \in {"chat", "completions", "premium_interactions"} }

BucketMaps == {bs \in SeqsUpTo(BucketVariants, MaxBuckets) : Distinct(IdsOf(bs))}

NormCopilotData ==
    { [login |-> "octocat", copilot_plan |-> "individual", sku |-> "",
       access_type_sku |-> sku, quota_reset_date_utc |-> date,
       has_snapshots |-> snaps[1], quota_snapshots |-> snaps[2]] :
        sku \in {"", "free_limited_copilot"},
        date \in {"", "2026-02-01T00:00:00Z", "soon"},
        snaps \in {<<FALSE, <<>>>>} \cup {<<TRUE, bs>> : bs \in BucketMaps} }

NormCodexData ==
    { [accountId |-> "acct-1", emailFromToken |-> "", planFromToken |-> "",
       quota |-> [planType |-> "plus",
                  primary |-> Window(used, resetAt),
                  secondary |-> Window(used2, <<0>>),
                  primaryOverSecondaryPercent |-> ratio,
                  creditsUnlimited |-> credits[1], creditsHasCredits |-> credits[2],
                  creditsBalance |-> credits[3]]] :
        used \in {<<>>, <<0>>, <<425>>, <<1000>>, <<1200>>, <<-50>>},
        resetAt \in {<<>>, <<1700000000>>},
        used2 \in {<<>>, <<250>>},
        ratio \in {<<>>, <<500>>},
        credits \in {<<TRUE, FALSE, <<>>>>, <<FALSE, TRUE, <<1250>>>>,
                     <<FALSE, TRUE, <<>>>>, <<FALSE, FALSE, <<1250>>>>} }

NormConfig == Config("access-token", "refresh-token", "", "dev@example.com", "acct-1", "")
NormGoogleEntries ==
    { [provider |-> "google-gemini-cli", raw |-> NormConfig],
      [provider |-> "google-antigravity",
       raw |-> Config("access-token", "", "proj-cfg", "", "", "")] }

\* The entries providerResults can hold.
NormEntries(n) ==
    UNION { { Result(e.provider, e.raw, KindOf(e.provider), d, "") :
                d \in NormGoogleData(e.raw, n) } : e \in NormGoogleEntries }
    \cup { Result("github-copilot", NormConfig, "copilot", d, "") : d \in NormCopilotData }
    \cup { Result("openai-codex", NormConfig, "openai-codex", d, "") : d \in NormCodexData }
    \cup { Result("openai-codex", NormConfig, "error", NoData, "missing access token"),
           Result("anthropic", Config("", "", "", "", "", "pro"), "unsupported", NoData, "") }

\* One turn of `for (const entry of providerResults)`.
Normalize ==
    /\ Len(norm.out) = 0
    /\ norm.entry.kind # "none"
    /\ norm' = [norm EXCEPT !.out = <<EntryRows(norm.entry)>>]
    /\ UNCHANGED <<hvars, lvars, call, cell, renders, invs, slot>>

RowsInit ==
    /\ \E e \in NormEntries(MaxModels) : norm = [entry |-> e, out |-> <<>>]
    /\ renders = <<>>
    /\ invs = <<>>
    /\ slot = NoSlot
    /\ authFile = [state |-> "ok", entries |-> <<>>]
    /\ call = NoCall
    /\ cell = NoCell
    /\ pc = "detached"
    /\ tasks = <<>>
    /\ notes = <<>>
    /\ widget = FALSE
    /\ timer = "none"
    /\ firstSettled = 0
    /\ rows = <<>>
    /\ lpc = "idle"
    /\ width = 0
    /\ maxWidth = 0
    /\ widths = <<>>
    /\ k = 1
    /\ reduced = FALSE
    /\ passDec = {}
    /\ lines = <<>>

RowsNext == Normalize

SpecRows == RowsInit /\ [][RowsNext]_vars

-----------------------------------------------------------------------------
(* Properties of row normalisation (checked under SpecRows).               *)

Normalized == Len(norm.out) = 1
Out == norm.out[1]
Tiered == norm.entry.kind \in {"antigravity", "gemini-cli"}

HasValue(rs, v) == \E n \in 1..Len(rs) : rs[n].value = v

\* The response of the model fetch carried a `models` object.
HasModelsMap == norm.entry.data.hasModelsData /\ norm.entry.data.modelsData.has_models

\* C21 as claimed: the "No quota data" row is there exactly when no credits
\* row, no per-model row and no soft-error row was produced, so that a
\* Tiered-Model result always contributes a row.
C21_IffNothingProduced ==
    (Normalized /\ Tiered) =>
        /\ HasValue(Out, "No quota data") <=>
              /\ CountMetric(Out, "prompt_credits") = 0
              /\ Len(ModelRows(Out)) = 0
              /\ CountMetric(Out, "model_quotas") = 0
        /\ Len(Out) >= 1

\* C21: the "No quota data" row of a Tiered-Model result is emitted exactly
\* when no prompt credits were reported, the model fetch brought no `models`
\* object and there is no soft error; when it is emitted it is the only row of
\* the provider (none of the other rows was produced), it is the last row, and
\* it is never emitted twice.  A result with a `models` object none of whose
\* models passes the filter, and without credits, contributes no row at all.
C21_NoQuotaDataRow ==
    (Normalized /\ Tiered) =>
        /\ HasValue(Out, "No quota data") <=>
              /\ Len(norm.entry.data.loadData.availablePromptCredits) = 0
              /\ ~HasModelsMap
              /\ norm.entry.data.modelsError = ""
        /\ HasValue(Out, "No quota data") =>
              /\ Len(Out) = 1
              /\ Out[1].metric = "quota"
              /\ Out[1].provider = norm.entry.provider
        /\ Len(Out) = 0 <=>
              /\ Len(norm.entry.data.loadData.availablePromptCredits) = 0
              /\ HasModelsMap
              /\ \A n \in 1..Len(norm.entry.data.modelsData.models) :
                    ~Relevant(norm.entry.data.modelsData.models[n],
                              norm.entry.data.modelsData.recommended)

\* C21 witness: a Tiered-Model result without credits, without models and
\* without soft error was normalised to the one "No quota data" row.
C21_Witness ==
    /\ Normalized
    /\ Tiered
    /\ Len(Out) = 1
    /\ Out[1].metric = "quota"
    /\ Out[1].value = "No quota data"

SubscriptionSnapshot == norm.entry.kind = "copilot"

C23_ModelFilter ==
    (Normalized /\ Tiered) =>
        LET shown == ModelRows(Out) IN
        IF ~HasModelsMap THEN Len(shown) = 0
        ELSE LET models      == norm.entry.data.modelsData.models
                 recommended == norm.entry.data.modelsData.recommended
             IN /\ \A n \in 1..Len(models) :
                      (CountMetric(shown, models[n].id) >= 1) <=>
                          /\ models[n].hasQuotaInfo
                          /\ \/ models[n].id \in recommended
                             \/ /\ models[n].remainingFraction # <<>>
                                /\ models[n].remainingFraction[1] < 1000
                /\ \A n \in 1..Len(shown) :
                      /\ CountMetric(shown, shown[n].metric) = 1
                      /\ \E i \in 1..Len(models) : models[i].id = shown[n].metric
                /\ \A n \in 1..(Len(shown) - 1) :
                      StrLess(shown[n].metric, shown[n + 1].metric, 1)

\* C23 witness: of two models the response lists in descending order of id,
\* one passed the filter as recommended (its fraction is 1), the other by its
\* fraction (it is not recommended), and the rows came out in ascending order.
C23_Witness ==
    /\ Normalized
    /\ Tiered
    /\ HasModelsMap
    /\ Len(norm.entry.data.modelsData.models) = 2
    /\ norm.entry.data.modelsData.models[1] =
           Model("gemini-2.5-pro", TRUE, <<1000>>, "")
    /\ norm.entry.data.modelsData.models[2] =
           Model("claude-sonnet-4", TRUE, <<450>>, "2026-02-01T00:00:00Z")
    /\ norm.entry.data.modelsData.recommended = {"gemini-2.5-pro"}
    /\ MetricsOf(ModelRows(Out)) = <<"claude-sonnet-4", "gemini-2.5-pro">>

HeaderProbe == norm.entry.kind = "openai-codex"

\* The rate window a Header-Probe row reports.
WindowOf(row) ==
    IF row.metric = "codex_primary" THEN norm.entry.data.quota.primary
    ELSE norm.entry.data.quota.secondary

\* C24: progressRemaining of a row, when present, is a fraction in [0,1]
\* (thousandths: 0..1000); on a Header-Probe window row whose used-percent was
\* reported it is present and is the remaining fraction (100 - used)/100, and
\* it is absent only when no used-percent was reported.
C24_ProgressRemaining ==
    Normalized =>
        \A n \in 1..Len(Out) :
            /\ Len(Out[n].progressRemaining) = 1 =>
                  (Out[n].progressRemaining[1] >= 0 /\ Out[n].progressRemaining[1] <= 1000)
            /\ (HeaderProbe /\ Out[n].metric \in {"codex_primary", "codex_secondary"}) =>
                  LET window == WindowOf(Out[n]) IN
                  IF Len(window.usedPercent) = 1
                  THEN Out[n].progressRemaining =
                           <<1000 - Max(0, Min(1000, window.usedPercent[1]))>>
                  ELSE Out[n].progressRemaining = <<>>

-----------------------------------------------------------------------------
(* The render callback of a widget that is shown: the handler has run to   *)
(* its end, and the shell calls render(width) again and again.             *)

MaxRenders == 3

RenderWidths == {20, 100, 120}

\* renderQuotaTable's shrink loop run to its exit.
RECURSIVE RunLoop(_, _)
RunLoop(s, w) ==
    IF s.pc = "while" THEN RunLoop(whileCheck(s, w), w)
    ELSE IF s.pc = "for" THEN RunLoop(forStep(s, w), w)
    ELSE s

renderQuotaTable(rs, w) == TableLines(rs, RunLoop(LoopEntry(rs, w), w).widths, w)

\* A plausible slip: `lines` kept by the factory (as the earlier version did)
\* and every render call pushing onto it.
renderAccumulating(rs, w) ==
    lines \o Append(renderQuotaTable(rs, PassedWidth(w)), footerLine(w))

\* render: (width) => { lines = renderQuotaTable(theme, rows, width);
\*                      lines.push(footer); return lines }
render(rs, w) == Append(renderQuotaTable(rs, PassedWidth(w)), footerLine(w))

\* The stores and the settled tasks the render calls are made after.
RenderStores ==
    { [state |-> "ok", entries |-> <<[provider |-> p, raw |-> NormConfig]>>] :
        p \in {"github-copilot", "google-gemini-cli", "openai-codex", "anthropic"} }
    \cup { [state |-> "ok",
            entries |-> <<[provider |-> "github-copilot", raw |-> NormConfig],
                          [provider |-> "openai-codex", raw |-> NormConfig]>>] }

\* The tasks a task can settle to, over the responses to its requests.
RECURSIVE Outcomes(_, _)
Outcomes(task, e) ==
    IF task.status \notin {"wait1", "wait2"} THEN {task}
    ELSE UNION { Outcomes(ResumeTask([task EXCEPT !.resps = Append(@, r)],
                                     e.provider, e.raw, r), e) :
                 r \in ResponsesTo(task.reqs[Len(task.reqs)]) }

SettledTasks(file) ==
    { ts \in [1..Len(file.entries) ->
                UNION { Outcomes(StartTask(file.entries[i].provider, file.entries[i].raw),
                                 file.entries[i]) : i \in 1..Len(file.entries) }] :
        \A i \in 1..Len(file.entries) :
            ts[i] \in Outcomes(StartTask(file.entries[i].provider, file.entries[i].raw),
                               file.entries[i]) }

\* The shell calls render(width).
Render ==
    /\ widget
    /\ Len(renders) < MaxRenders
    /\ \E w \in RenderWidths :
         /\ width' = w
         /\ lines' = render(rows, w)
         /\ renders' = Append(renders, [width |-> w, lines |-> lines'])
    /\ UNCHANGED <<hvars, rows, lpc, maxWidth, widths, k, reduced, passDec, call, cell, norm,
                   invs, slot>>

RenderInit ==
    /\ authFile \in RenderStores
    /\ tasks \in SettledTasks(authFile)
    /\ pc = "done"
    /\ notes = <<Note("info", "Fetching quotas...")>>
    /\ rows = FactoryRows(providerResults)
    /\ widget = TRUE
    /\ timer = "armed"
    /\ firstSettled = 0
    /\ call = NoCall
    /\ cell = NoCell
    /\ norm = NoNorm
    /\ renders = <<>>
    /\ invs = <<>>
    /\ slot = NoSlot
    /\ lpc = "idle"
    /\ width = 0
    /\ maxWidth = 0
    /\ widths = <<>>
    /\ k = 1
    /\ reduced = FALSE
    /\ passDec = {}
    /\ lines = <<>>

RenderNext == Render

SpecRender == RenderInit /\ [][RenderNext]_vars

-----------------------------------------------------------------------------
(* Properties of repeated rendering (checked under SpecRender).            *)

-----------------------------------------------------------------------------
(* Properties of the shrink loop (checked under SpecLayout).               *)

InLoop == lpc \in {"while", "for"}

\* Every column at the smaller of its natural width and its floor.
FloorWidths == [c \in Cols |-> Min(NaturalWidths(rows)[c], ColumnFloors[c])]

\* A variant of the loop: the total width, then the place within the passes
\* made at that total (the rest of a pass that has reduced, the while test, a
\* pass that has not reduced yet).
LoopRank ==
    totalWidth(widths) * 32
    + (IF lpc = "for" THEN (IF reduced THEN 20 - k ELSE 7 - k)
       ELSE IF lpc = "while" THEN 10
       ELSE 0)

\* C26: for a target width W that is not 0, every step of the shrink loop
\* lowers a variant that is never negative, so the loop terminates; and when
\* it has ended for a table whose natural total exceeds W, the total width
\* (the sum of the widths, 3 per column, and 1) is exactly W if W is at least
\* the sum of the smaller of natural width and floor over the columns plus
\* 22, and otherwise every column is at the smaller of its natural width and
\* its floor.  (The rows, and with them the natural widths, are the same
\* before and after a step of the layout.)
C26_ShrinkLoopExact ==
    [][ /\ InLoop => (LoopRank' < LoopRank /\ LoopRank' >= 0)
        /\ (lpc' = "emit" /\ lpc # "emit" /\ NaturalTotal > maxWidth' /\ maxWidth' # 0) =>
              IF maxWidth' >= totalWidth(FloorWidths)
              THEN totalWidth(widths') = maxWidth'
              ELSE widths' = FloorWidths ]_vars

\* C26 witness: a table with a column naturally narrower than its floor and a
\* natural total above the target was shrunk, over more than one pass, to
\* exactly the target width.
C26_Witness ==
    /\ lpc = "done"
    /\ NaturalTotal > maxWidth + 6
    /\ maxWidth >= totalWidth(FloorWidths)
    /\ totalWidth(widths) = maxWidth
    /\ \E c \in Cols : NaturalWidths(rows)[c] < ColumnFloors[c]

-----------------------------------------------------------------------------
(* The quota command invoked again and again, a later invocation possibly  *)
(* while an earlier one still awaits its adapters or still shows its       *)
(* widget.  The shell has one widget slot under the key "quota"; setWidget  *)
(* with a factory replaces what the slot holds, setWidget with undefined   *)
(* clears it.  The adapters are left out: no task rejects (C8), so         *)
(* Promise.all fulfils, at a time of its own.  The timers all run 30 s, so *)
(* they fire in the order they were armed.                                 *)

MaxInvocations == 4

OverlapStores ==
    { [state |-> "missing", entries |-> <<>>],
      [state |-> "ok", entries |-> <<>>],
      [state |-> "ok", entries |-> <<[provider |-> "github-copilot", raw |-> NormConfig]>>] }

NotInvoked == [pc |-> "idle", timer |-> "none"]

\* The handler of invocation j up to `await Promise.all(...)`.
InvokeAgain(j) ==
    /\ invs[j].pc = "idle"
    /\ IF j = 1 THEN TRUE ELSE invs[j - 1].pc # "idle"
    /\ IF loadAuthError(authFile) # ""
       THEN /\ notes' = Append(notes, Note("error",
                           "Error fetching quotas: " \o loadAuthError(authFile)))
            /\ invs' = [invs EXCEPT ![j].pc = "done"]
       ELSE IF Len(authFile.entries) = 0
       THEN /\ notes' = Append(notes, Note("warning", "No logged-in providers found"))
            /\ invs' = [invs EXCEPT ![j].pc = "done"]
       ELSE /\ notes' = Append(notes, Note("info", "Fetching quotas..."))
            /\ invs' = [invs EXCEPT ![j].pc = "awaiting"]
    /\ UNCHANGED <<authFile, pc, tasks, widget, timer, firstSettled, lvars,
                   call, cell, norm, renders, slot>>

\* The handler of invocation j after `await Promise.all(...)`:
\* ctx.ui.setWidget("quota", factory), then setTimeout(..., 30000).
SetWidgetAndTimer(j) ==
    /\ invs[j].pc = "awaiting"
    /\ invs' = [invs EXCEPT ![j].pc = "done", ![j].timer = "armed"]
    /\ slot' = [owner |-> j, pending |-> Append(slot.pending, j)]
    /\ widget' = TRUE
    /\ UNCHANGED <<authFile, pc, tasks, notes, timer, firstSettled, lvars,
                   call, cell, norm, renders>>

\* The oldest pending timer fires: () => ctx.ui.setWidget("quota", undefined).
CloseTimerFires ==
    /\ Len(slot.pending) > 0
    /\ invs' = [invs EXCEPT ![Head(slot.pending)].timer = "fired"]
    /\ slot' = [owner |-> 0, pending |-> Tail(slot.pending)]
    /\ widget' = FALSE
    /\ UNCHANGED <<authFile, pc, tasks, notes, timer, firstSettled, lvars,
                   call, cell, norm, renders>>

OverlapInit ==
    /\ authFile \in OverlapStores
    /\ invs = [j \in 1..MaxInvocations |-> NotInvoked]
    /\ slot = NoSlot
    /\ pc = "detached"
    /\ tasks = <<>>
    /\ notes = <<>>
    /\ widget = FALSE
    /\ timer = "none"
    /\ firstSettled = 0
    /\ call = NoCall
    /\ cell = NoCell
    /\ norm = NoNorm
    /\ renders = <<>>
    /\ rows = <<>>
    /\ lpc = "idle"
    /\ width = 0
    /\ maxWidth = 0
    /\ widths = <<>>
    /\ k = 1
    /\ reduced = FALSE
    /\ passDec = {}
    /\ lines = <<>>

OverlapNext ==
    \/ \E j \in DOMAIN invs : InvokeAgain(j)
    \/ \E j \in DOMAIN invs : SetWidgetAndTimer(j)
    \/ CloseTimerFires

SpecOverlap == OverlapInit /\ [][OverlapNext]_vars

-----------------------------------------------------------------------------
(* Properties of overlapping invocations (checked under SpecOverlap).      *)

\* C27: the widget an invocation has set leaves the slot by being cleared
\* only when the timer of that same invocation fires (so the timer of an
\* earlier invocation never clears the widget of a later one), and the timer
\* of an invocation is armed only in the step in which that invocation has set
\* the widget.
C27_TimerScopedToInvocation ==
    [][ \A j \in DOMAIN invs :
          /\ (slot.owner = j /\ slot'.owner = 0) =>
                (invs[j].timer = "armed" /\ invs'[j].timer = "fired")
          /\ (invs[j].timer = "none" /\ invs'[j].timer = "armed") =>
                slot'.owner = j ]_vars

====
